---- MODULE Spec2Model ----
(***************************************************************************)
(* Inventory_Management: the Items page (item create / edit / delete /     *)
(* sell against the browser store), the page load effects of the Items,    *)
(* Dashboard and Reports pages, the SKU-derived metrics, the stock-alert   *)
(* request built on the Items page, and the debounced health-report        *)
(* component.                                                              *)
(*                                                                         *)
(* An Item is the record                                                   *)
(*   [id, sku, categoryId, quantity, price, reorderPoint,                  *)
(*    averageDailySales, leadTimeDays]                                     *)
(* (src/src/types/index.ts 2-13).  name and supplierName are free text     *)
(* that no modelled handler reads or computes with; they are carried       *)
(* along by every handler exactly like the fields kept here and are left   *)
(* out of the records.  A SKU is the sequence of its UTF-16 code units.    *)
(***************************************************************************)
EXTENDS Integers, Sequences, FiniteSets, TLC

VARIABLES
    \* ---- browser store (localStorage), src/unnamed/part_005 ----
    storeItems,        \* localStorage 'items'
    storeCategories,   \* localStorage 'categories'
    storeSoldItems,    \* localStorage 'soldItems'
    \* ---- React state of the page that is mounted ----
    page,              \* "items" | "dashboard" | "reports"
    items,             \* useState<Item[]> of the mounted page
    categories,        \* useState<Category[]> of the mounted page
    soldItems,         \* useState<SoldItem[]> of the mounted page
    itemsCreated,      \* history: uuidv4() values drawn for items so far
    lastOp,            \* history: the handler that ran last
    \* ---- calls of the two getDeterministicItemData implementations ----
    mSku,              \* the SKU the calls are made with
    mItemsPage,        \* what the Items page's implementation returned
    mDashboard,        \* what the Dashboard's implementation returned
    \* ---- AIHealthReport component (ai-health-report.tsx) ----
    allItems,          \* the allItems prop
    report,            \* useState report: NoReport or a result
    hIsLoading,        \* useState isLoading
    hError,            \* useState error: NoError, "busy" or "failed"
    hRetryCount,       \* useState retryCount
    hDebounce,         \* the effect's 500 ms timer: TimerOff or the ms left
    hRetryTimers,      \* pending 5 s retry timers: set of [by, left]
    hInFlight,         \* requests awaiting the service: set of [ordinal, input]
    hIssued,           \* history: number of requests issued
    hSucceeded,        \* history: ordinals of the requests that succeeded
    hLastInput,        \* history: input of the request issued last
    hSinceItems,       \* history: ms since allItems changed last (capped)
    hReqsSinceItems,   \* history: requests issued since allItems changed last
    hSinceDeps,        \* history: ms since allItems or retryCount changed last
    hReqsSinceDeps,    \* history: requests issued since that change
    hBurst,            \* history: allItems changes less than 500 ms apart
    \* ---- AIAlert component on the Items page's Low Stock tab ----
    lowStockItems,     \* the lowStockItems prop
    alert,             \* useState alert: NoReport or a result
    aIsLoading,        \* useState isLoading
    aError,            \* useState error: NoError, "busy" or "failed"
    aRetryCount,       \* useState retryCount
    aEffect,           \* TRUE when the effect on [fetchAlert] is still to run
    aRetryTimers,      \* pending 5 s retry timers: set of [by, left]
    aInFlight,         \* requests awaiting the service: set of [ordinal, input]
    aIssued,           \* history: number of requests issued
    aLastInput,        \* history: input of the request issued last
    \* ---- ReportsPage (settings/page.tsx): its analysis request and exports
    aiReport,          \* useState aiReport: NoReport or a result
    isGenerating,      \* useState isGenerating
    rError,            \* useState error: NoError or "failed"
    rEffect,           \* TRUE when the effect on [items, isLoading] is to run
    rInFlight,         \* requests awaiting the service: set of [ordinal, input]
    rIssued,           \* history: number of requests issued
    exportLog,         \* the documents saved, in order
    \* ---- what the Dashboard and the Reports page derive when they render
    dashboardStats,    \* DashboardPage: NotRendered or its derived numbers
    reportsStock,      \* ReportsPage: NotRendered or its derived lists
    alertCard          \* AIAlert: NotRendered or the rows of its actions table

invVars == <<storeItems, storeCategories, storeSoldItems, page, items,
             categories, soldItems, itemsCreated, lastOp>>
metricVars == <<mSku, mItemsPage, mDashboard>>
healthVars == <<allItems, report, hIsLoading, hError, hRetryCount, hDebounce,
                hRetryTimers, hInFlight, hIssued, hSucceeded, hLastInput,
                hSinceItems, hReqsSinceItems, hSinceDeps, hReqsSinceDeps,
                hBurst>>
alertVars == <<lowStockItems, alert, aIsLoading, aError, aRetryCount, aEffect,
               aRetryTimers, aInFlight, aIssued, aLastInput>>
reportsVars == <<aiReport, isGenerating, rError, rEffect, rInFlight, rIssued,
                 exportLog>>
renderVars == <<dashboardStats, reportsStock, alertCard>>
vars == <<invVars, metricVars, healthVars, alertVars, reportsVars, renderVars>>

\* Held in mItemsPage / mDashboard until the implementation has been called
NotCalled == [averageDailySales |-> 0, leadTimeDays |-> 0]

-----------------------------------------------------------------------------
(* Bounds and input sets *)

MaxItems == 1      \* items created in one run
MaxSold == 1       \* sales made in one run
MaxSkuLen == 3     \* longest SKU the metric functions are called with
MaxRequests == 3   \* analysis requests a component issues in one run
MaxExports == 2    \* documents the Reports page saves in one run
RowsPerPage == 2   \* table rows that fit on one page of a PDF

DebounceMs == 500  \* ai-health-report.tsx 73
RetryMs == 5000    \* ai-health-report.tsx 58
TickMs == DebounceMs \div 2   \* the step in which the model lets time pass

SkuAB == <<65, 66>>                       \* "AB"
SkuAC == <<65, 67>>                       \* "AC"
SkuA == <<65>>                            \* "A": too short for the form
CategoryIds == {"c1", "c2"}
Quantities == {0, 1, 2}                   \* quantities the forms are given
SellInputs == {0, 1, 2, 3}                \* typed into the sell dialog
CodeUnits == {48, 65, 85, 233, 8364}      \* "0", "A", "U", e-acute, euro sign
SkuStrings == UNION {[1 .. n -> CodeUnits] : n \in 0 .. MaxSkuLen}

-----------------------------------------------------------------------------
(* Helpers over sequences *)

Max(a, b) == IF a >= b THEN a ELSE b

SeqMap(s, f(_)) == [k \in 1 .. Len(s) |-> f(s[k])]

Range(s) == {s[k] : k \in 1 .. Len(s)}

-----------------------------------------------------------------------------
(* Deterministic metrics: one definition per call site *)

RECURSIVE ReduceCharCodes(_, _)
\* sku.split('').reduce((acc, char) => acc + char.charCodeAt(0), acc0)
ReduceCharCodes(sku, acc) ==
    IF sku = <<>> THEN acc
    ELSE ReduceCharCodes(Tail(sku), acc + Head(sku))

\* ItemsPage.getDeterministicItemData(sku)
ItemsPage_getDeterministicItemData(sku) ==
    LET skuSeed == ReduceCharCodes(sku, 0)
    IN  [averageDailySales |-> (skuSeed % 19) + 1,
         leadTimeDays |-> (skuSeed % 9) + 2]

\* The Dashboard's implementation with the lead time taken modulo 10
DashboardPage_getDeterministicItemData_mod10(item) ==
    LET skuSeed == ReduceCharCodes(item.sku, 0)
    IN  [item EXCEPT !.averageDailySales = (skuSeed % 19) + 1,
                     !.leadTimeDays = (skuSeed % 10) + 2]

\* DashboardPage.getDeterministicItemData(item): returns the item with the
\* two derived fields overwritten
DashboardPage_getDeterministicItemData(item) ==
    LET skuSeed == ReduceCharCodes(item.sku, 0)
    IN  [item EXCEPT !.averageDailySales = (skuSeed % 19) + 1,
                     !.leadTimeDays = (skuSeed % 9) + 2]

-----------------------------------------------------------------------------
(* Form validation *)

\* itemFormSchema: sku.min(2), quantity int nonnegative, price positive,
\* reorderPoint int nonnegative, categoryId a string
itemFormSchema(values) ==
    /\ Len(values.sku) >= 2
    /\ values.quantity >= 0
    /\ values.price > 0
    /\ values.reorderPoint >= 0

\* What the user submits on the Items page in the runs of Spec: every
\* combination of the acceptable values, and one submission per field the
\* form refuses
FormValues ==
    [sku : {SkuAB}, categoryId : CategoryIds, quantity : Quantities,
     price : {10, 20}, reorderPoint : {1}]
    \cup {[sku |-> SkuA, categoryId |-> "c1", quantity |-> 1, price |-> 10,
           reorderPoint |-> 1],
          [sku |-> SkuAB, categoryId |-> "c1", quantity |-> -1, price |-> 10,
           reorderPoint |-> 1],
          [sku |-> SkuAB, categoryId |-> "c1", quantity |-> 1, price |-> 0,
           reorderPoint |-> 1]}

\* What the user submits in the runs of SpecPages, where the SKU is edited
PagesFormValues ==
    [sku : {SkuAB, SkuAC}, categoryId : CategoryIds, quantity : {-1, 0, 1},
     price : {10, 20}, reorderPoint : {1}]

\* What the user submits in the runs of SpecAlert: the quantities around the
\* reorder point, and one submission the form refuses
AlertFormValues ==
    [sku : {SkuAB}, categoryId : {"c1"}, quantity : Quantities, price : {10},
     reorderPoint : {1}]
    \cup {[sku |-> SkuAB, categoryId |-> "c1", quantity |-> -1, price |-> 10,
           reorderPoint |-> 1]}

-----------------------------------------------------------------------------
(* Items page handlers *)

\* lastOp: the handler's name and, for a delete, the itemCount its category
\* had before it (0 for every other handler)
Op(op, n) == [op |-> op, n |-> n]

ItemCountOf(cats, cid) ==
    IF \E k \in 1 .. Len(cats) : cats[k].id = cid
    THEN (CHOOSE c \in Range(cats) : c.id = cid).itemCount
    ELSE 0

\* handleAddItem(newItem)
handleAddItem(newItem) ==
    LET deterministicData == ItemsPage_getDeterministicItemData(newItem.sku)
        newItemWithId ==
            [id |-> itemsCreated + 1, sku |-> newItem.sku,
             categoryId |-> newItem.categoryId, quantity |-> newItem.quantity,
             price |-> newItem.price, reorderPoint |-> newItem.reorderPoint,
             averageDailySales |-> deterministicData.averageDailySales,
             leadTimeDays |-> deterministicData.leadTimeDays]
        updatedItems == Append(items, newItemWithId)
        updatedCategories ==
            [k \in 1 .. Len(categories) |->
                IF categories[k].id = newItem.categoryId
                THEN [categories[k] EXCEPT !.itemCount = @ + 1]
                ELSE categories[k]]
    IN  /\ itemsCreated' = itemsCreated + 1
        /\ items' = updatedItems
        /\ storeItems' = updatedItems
        /\ categories' = updatedCategories
        /\ storeCategories' = updatedCategories
        /\ lastOp' = Op("add", 0)
        /\ UNCHANGED <<soldItems, storeSoldItems, page>>

\* handleEditItem(updatedItem)
handleEditItem(updatedItem) ==
    LET updatedItems ==
            [k \in 1 .. Len(items) |->
                IF items[k].id = updatedItem.id THEN updatedItem ELSE items[k]]
    IN  /\ items' = updatedItems
        /\ storeItems' = updatedItems
        /\ lastOp' = Op("edit", 0)
        /\ UNCHANGED <<categories, storeCategories, soldItems, storeSoldItems,
                       page, itemsCreated>>

\* handleDeleteItem with the decrement not floored at 0
handleDeleteItem_noFloor(itemId) ==
    LET found == \E k \in 1 .. Len(items) : items[k].id = itemId
        itemToDelete == CHOOSE it \in Range(items) : it.id = itemId
        updatedItems == SelectSeq(items, LAMBDA it : it.id # itemId)
        updatedCategories ==
            [k \in 1 .. Len(categories) |->
                IF categories[k].id = itemToDelete.categoryId
                THEN [categories[k] EXCEPT !.itemCount = @ - 1]
                ELSE categories[k]]
    IN  /\ items' = updatedItems
        /\ storeItems' = updatedItems
        /\ IF found
           THEN /\ categories' = updatedCategories
                /\ storeCategories' = updatedCategories
                /\ lastOp' = Op("delete",
                                ItemCountOf(categories, itemToDelete.categoryId))
           ELSE /\ UNCHANGED <<categories, storeCategories>>
                /\ lastOp' = Op("delete", 0)
        /\ UNCHANGED <<soldItems, storeSoldItems, page, itemsCreated>>

\* handleDeleteItem that also drops the sales of the deleted item
handleDeleteItem_cascade(itemId) ==
    LET found == \E k \in 1 .. Len(items) : items[k].id = itemId
        itemToDelete == CHOOSE it \in Range(items) : it.id = itemId
        updatedItems == SelectSeq(items, LAMBDA it : it.id # itemId)
        updatedSoldItems == SelectSeq(soldItems, LAMBDA so : so.itemId # itemId)
        updatedCategories ==
            [k \in 1 .. Len(categories) |->
                IF categories[k].id = itemToDelete.categoryId
                THEN [categories[k] EXCEPT !.itemCount = Max(0, @ - 1)]
                ELSE categories[k]]
    IN  /\ items' = updatedItems
        /\ storeItems' = updatedItems
        /\ soldItems' = updatedSoldItems
        /\ storeSoldItems' = updatedSoldItems
        /\ IF found
           THEN /\ categories' = updatedCategories
                /\ storeCategories' = updatedCategories
                /\ lastOp' = Op("delete",
                                ItemCountOf(categories, itemToDelete.categoryId))
           ELSE /\ UNCHANGED <<categories, storeCategories>>
                /\ lastOp' = Op("delete", 0)
        /\ UNCHANGED <<page, itemsCreated>>

\* handleDeleteItem(itemId)
handleDeleteItem(itemId) ==
    LET found == \E k \in 1 .. Len(items) : items[k].id = itemId
        itemToDelete == CHOOSE it \in Range(items) : it.id = itemId
        updatedItems == SelectSeq(items, LAMBDA it : it.id # itemId)
        updatedCategories ==
            [k \in 1 .. Len(categories) |->
                IF categories[k].id = itemToDelete.categoryId
                THEN [categories[k] EXCEPT !.itemCount = Max(0, @ - 1)]
                ELSE categories[k]]
    IN  /\ items' = updatedItems
        /\ storeItems' = updatedItems
        /\ IF found
           THEN /\ categories' = updatedCategories
                /\ storeCategories' = updatedCategories
                /\ lastOp' = Op("delete",
                                ItemCountOf(categories, itemToDelete.categoryId))
           ELSE /\ UNCHANGED <<categories, storeCategories>>
                /\ lastOp' = Op("delete", 0)
        /\ UNCHANGED <<soldItems, storeSoldItems, page, itemsCreated>>

\* handleSellItem that records the sale at the quantity sold times the price
\* instead of the unit price
handleSellItem_totalAsPrice(itemToSell, quantitySold) ==
    LET updatedItems ==
            [k \in 1 .. Len(items) |->
                IF items[k].id = itemToSell.id
                THEN [items[k] EXCEPT !.quantity = @ - quantitySold]
                ELSE items[k]]
        newSoldItem ==
            [id |-> Len(soldItems) + 1, itemId |-> itemToSell.id,
             sku |-> itemToSell.sku,
             quantitySold |-> quantitySold,
             price |-> itemToSell.price * quantitySold]
        updatedSoldItems == Append(soldItems, newSoldItem)
    IN  /\ items' = updatedItems
        /\ storeItems' = updatedItems
        /\ soldItems' = updatedSoldItems
        /\ storeSoldItems' = updatedSoldItems
        /\ lastOp' = Op("sell", 0)
        /\ UNCHANGED <<categories, storeCategories, page, itemsCreated>>

\* A sale that also takes the item out of its category's itemCount
handleSellItem_decrementsCount(itemToSell, quantitySold) ==
    LET updatedItems ==
            [k \in 1 .. Len(items) |->
                IF items[k].id = itemToSell.id
                THEN [items[k] EXCEPT !.quantity = @ - quantitySold]
                ELSE items[k]]
        updatedCategories ==
            SeqMap(categories,
                   LAMBDA cat : IF cat.id = itemToSell.categoryId
                                THEN [cat EXCEPT
                                         !.itemCount = Max(0, @ - 1)]
                                ELSE cat)
        newSoldItem ==
            [id |-> Len(soldItems) + 1, itemId |-> itemToSell.id,
             sku |-> itemToSell.sku,
             quantitySold |-> quantitySold, price |-> itemToSell.price]
        updatedSoldItems == Append(soldItems, newSoldItem)
    IN  /\ items' = updatedItems
        /\ storeItems' = updatedItems
        /\ categories' = updatedCategories
        /\ storeCategories' = updatedCategories
        /\ soldItems' = updatedSoldItems
        /\ storeSoldItems' = updatedSoldItems
        /\ lastOp' = Op("sell", 0)
        /\ UNCHANGED <<page, itemsCreated>>

\* handleSellItem(itemToSell, quantitySold)
handleSellItem(itemToSell, quantitySold) ==
    LET updatedItems ==
            [k \in 1 .. Len(items) |->
                IF items[k].id = itemToSell.id
                THEN [items[k] EXCEPT !.quantity = @ - quantitySold]
                ELSE items[k]]
        newSoldItem ==
            [id |-> Len(soldItems) + 1, itemId |-> itemToSell.id,
             sku |-> itemToSell.sku,
             quantitySold |-> quantitySold, price |-> itemToSell.price]
        updatedSoldItems == Append(soldItems, newSoldItem)
    IN  /\ items' = updatedItems
        /\ storeItems' = updatedItems
        /\ soldItems' = updatedSoldItems
        /\ storeSoldItems' = updatedSoldItems
        /\ lastOp' = Op("sell", 0)
        /\ UNCHANGED <<categories, storeCategories, page, itemsCreated>>

-----------------------------------------------------------------------------
(* Items table and item form: the user operations that reach the handlers. *)
(* Every dialog is modal and is opened from a row of the current items, so *)
(* selectedItem is that row's item when the dialog's button is pressed.    *)

\* ItemForm.onSubmit for a new item: form.handleSubmit runs onSubmit only
\* when the resolver accepts the values
ItemForm_onSubmit_add(values) ==
    /\ page = "items"
    /\ itemsCreated < MaxItems
    /\ IF itemFormSchema(values)
       THEN handleAddItem(values)
       ELSE /\ lastOp' = Op("rejected", 0)
            /\ UNCHANGED <<storeItems, storeCategories, storeSoldItems, page,
                           items, categories, soldItems, itemsCreated>>

\* ItemForm.onSubmit for an existing item: onEditItem({...item, ...values})
ItemForm_onSubmit_edit(item, values) ==
    /\ page = "items"
    /\ IF itemFormSchema(values)
       THEN handleEditItem([item EXCEPT !.sku = values.sku,
                                        !.categoryId = values.categoryId,
                                        !.quantity = values.quantity,
                                        !.price = values.price,
                                        !.reorderPoint = values.reorderPoint])
       ELSE /\ lastOp' = Op("rejected", 0)
            /\ UNCHANGED <<storeItems, storeCategories, storeSoldItems, page,
                           items, categories, soldItems, itemsCreated>>

\* ItemsTable.handleDelete
handleDelete(selectedItem) ==
    /\ page = "items"
    /\ handleDeleteItem(selectedItem.id)

\* handleSellConfirm without the upper limit on the quantity
handleSellConfirm_noUpperLimit(selectedItem, sellQuantity) ==
    LET quantityNum == sellQuantity
    IN  /\ page = "items"
        /\ selectedItem.quantity > 0
        /\ Len(soldItems) < MaxSold
        /\ IF quantityNum > 0
           THEN handleSellItem(selectedItem, quantityNum)
           ELSE /\ lastOp' = Op("rejected", 0)
                /\ UNCHANGED <<storeItems, storeCategories, storeSoldItems,
                               page, items, categories, soldItems, itemsCreated>>

\* ItemsTable.handleSellConfirm; the Sell entry is offered for rows with
\* quantity > 0 (items-table.tsx 188)
handleSellConfirm(selectedItem, sellQuantity) ==
    LET quantityNum == sellQuantity
    IN  /\ page = "items"
        /\ selectedItem.quantity > 0
        /\ Len(soldItems) < MaxSold
        /\ IF quantityNum > 0 /\ quantityNum <= selectedItem.quantity
           THEN handleSellItem(selectedItem, quantityNum)
           ELSE /\ lastOp' = Op("rejected", 0)
                /\ UNCHANGED <<storeItems, storeCategories, storeSoldItems,
                               page, items, categories, soldItems, itemsCreated>>

-----------------------------------------------------------------------------
(* Page load effects *)

\* ItemsPage: useEffect(() => { setItems(getItems()); ... }, [])
ItemsPage_load ==
    /\ page' = "items"
    /\ items' = storeItems
    /\ categories' = storeCategories
    /\ soldItems' = storeSoldItems
    /\ lastOp' = Op("load", 0)
    /\ UNCHANGED <<storeItems, storeCategories, storeSoldItems, itemsCreated>>

\* DashboardPage: loadedItems = getItems().map(getDeterministicItemData)
DashboardPage_load ==
    /\ page' = "dashboard"
    /\ items' = SeqMap(storeItems, DashboardPage_getDeterministicItemData)
    /\ categories' = storeCategories
    /\ soldItems' = storeSoldItems
    /\ lastOp' = Op("load", 0)
    /\ UNCHANGED <<storeItems, storeCategories, storeSoldItems, itemsCreated>>

\* ReportsPage: setItems(getItems()); ...
ReportsPage_load ==
    /\ page' = "reports"
    /\ items' = storeItems
    /\ categories' = storeCategories
    /\ soldItems' = storeSoldItems
    /\ lastOp' = Op("load", 0)
    /\ UNCHANGED <<storeItems, storeCategories, storeSoldItems, itemsCreated>>

-----------------------------------------------------------------------------
(* The Categories page (a category's name and description are free text    *)
(* and left out)                                                           *)

NewCategoryIds == {"c3"}                  \* ids uuidv4() hands out

\* categoryItemCounts[id] || 0
CategoriesPage_categoryItemCounts(allItems_, id) ==
    Len(SelectSeq(allItems_, LAMBDA item : item.categoryId = id))

\* CategoriesPage load effect: the stored categories with their itemCount
\* recomputed from the stored items go into the page's state
CategoriesPage_load ==
    /\ page' = "categories"
    /\ categories' =
          SeqMap(storeCategories,
                 LAMBDA cat :
                    [cat EXCEPT !.itemCount =
                        CategoriesPage_categoryItemCounts(storeItems, cat.id)])
    /\ items' = <<>>
    /\ soldItems' = <<>>
    /\ lastOp' = Op("load", 0)
    /\ UNCHANGED <<storeItems, storeCategories, storeSoldItems, itemsCreated>>

\* CategoriesPage.handleAddCategory(newCategory)
handleAddCategory(id) ==
    LET newCategoryWithId == [id |-> id, itemCount |-> 0]
        updatedCategories == Append(categories, newCategoryWithId)
    IN  /\ page = "categories"
        /\ \A k \in DOMAIN categories : categories[k].id # id
        /\ categories' = updatedCategories
        /\ storeCategories' = updatedCategories
        /\ lastOp' = Op("addCategory", 0)
        /\ UNCHANGED <<storeItems, storeSoldItems, page, items, soldItems,
                       itemsCreated>>

\* CategoriesPage.handleEditCategory(updatedCategory)
handleEditCategory(updatedCategory) ==
    LET updatedCategories ==
            SeqMap(categories,
                   LAMBDA cat : IF cat.id = updatedCategory.id
                                THEN updatedCategory ELSE cat)
    IN  /\ page = "categories"
        /\ categories' = updatedCategories
        /\ storeCategories' = updatedCategories
        /\ lastOp' = Op("editCategory", 0)
        /\ UNCHANGED <<storeItems, storeSoldItems, page, items, soldItems,
                       itemsCreated>>

\* CategoryForm.onSubmit for an existing category:
\* onEditCategory({ ...category, ...values })
CategoryForm_onSubmit_edit(category) ==
    handleEditCategory(category)

\* CategoriesPage.handleDeleteCategory(categoryId)
handleDeleteCategory(categoryId) ==
    LET updatedCategories ==
            SelectSeq(categories, LAMBDA cat : cat.id # categoryId)
    IN  /\ page = "categories"
        /\ categories' = updatedCategories
        /\ storeCategories' = updatedCategories
        /\ lastOp' = Op("deleteCategory", 0)
        /\ UNCHANGED <<storeItems, storeSoldItems, page, items, soldItems,
                       itemsCreated>>

-----------------------------------------------------------------------------
(* The entries of the analysis requests (itemName and supplierName are     *)
(* free text and left out, as in the items)                                *)

RequestEntry(item) ==
    [itemId |-> item.id,
     currentQuantity |-> item.quantity,
     reorderPoint |-> item.reorderPoint,
     averageDailySales |-> item.averageDailySales,
     sellingPrice |-> item.price,
     leadTimeDays |-> item.leadTimeDays]

\* ItemsPage: lowStockItems = items.filter(quantity <= reorderPoint)
ItemsPage_lowStockItems(its) ==
    SelectSeq(its, LAMBDA item : item.quantity <= item.reorderPoint)

\* AIAlert.fetchAlert: alertInput.lowStockItems
AIAlert_alertInput(its) == SeqMap(its, RequestEntry)

\* AIHealthReport.fetchReport: reportInput.inventoryItems
AIHealthReport_reportInput(its) == SeqMap(its, RequestEntry)

\* ReportsPage fetchReport: reportInput.inventoryItems
ReportsPage_reportInput(its) == SeqMap(its, RequestEntry)

\* The request entries the mounted page sends to the analysis service
PageRequestEntries ==
    CASE page = "items" -> AIAlert_alertInput(ItemsPage_lowStockItems(items))
      [] page = "dashboard" -> AIHealthReport_reportInput(items)
      [] page = "reports" -> ReportsPage_reportInput(items)

-----------------------------------------------------------------------------
(* Calls of the two getDeterministicItemData implementations *)

\* The Items page derives the metrics of mSku (handleAddItem, line 39)
ItemsPage_callGetDeterministicItemData ==
    /\ mItemsPage' = ItemsPage_getDeterministicItemData(mSku)
    /\ UNCHANGED <<mSku, mDashboard>>

\* The Dashboard derives the metrics of a stored item with SKU mSku (load
\* effect, line 33): what it stores are the two derived fields
DashboardPage_callGetDeterministicItemData ==
    LET stored == [id |-> 1, sku |-> mSku, categoryId |-> "c1", quantity |-> 1,
                   price |-> 10, reorderPoint |-> 1,
                   averageDailySales |-> 0, leadTimeDays |-> 0]
        loaded == DashboardPage_getDeterministicItemData(stored)
    IN  /\ mDashboard' = [averageDailySales |-> loaded.averageDailySales,
                          leadTimeDays |-> loaded.leadTimeDays]
        /\ UNCHANGED <<mSku, mItemsPage>>

-----------------------------------------------------------------------------
(* AIHealthReport: debounced, retried analysis requests.  Time passes in   *)
(* steps of TickMs; a timer that is due runs before more time passes.      *)

NoReport == [request |-> 0]
NoError == "null"
TimerOff == -1

HealthItem(id, quantity) ==
    [id |-> id, sku |-> SkuAB, categoryId |-> "c1", quantity |-> quantity,
     price |-> 10, reorderPoint |-> 1, averageDailySales |-> 18,
     leadTimeDays |-> 7]

\* The item lists the parent passes as allItems
HealthItemLists ==
    {<<>>, <<HealthItem(1, 0)>>, <<HealthItem(1, 0), HealthItem(2, 2)>>}

\* What the analysis service answers to a request: the result is tagged with
\* the request it answers
ServiceResult(request) == [request |-> request.ordinal]

\* The ways a call of the service fails: the message holds 429, 503 or neither
Failures == {"429", "503", "other"}

Min(a, b) == IF a <= b THEN a ELSE b

\* The component is not mounted
HealthIdle ==
    /\ allItems = <<>>
    /\ report = NoReport
    /\ hIsLoading = TRUE
    /\ hError = NoError
    /\ hRetryCount = 0
    /\ hDebounce = TimerOff
    /\ hRetryTimers = {}
    /\ hInFlight = {}
    /\ hIssued = 0
    /\ hSucceeded = {}
    /\ hLastInput = <<>>
    /\ hSinceItems = 0
    /\ hReqsSinceItems = 0
    /\ hSinceDeps = 0
    /\ hReqsSinceDeps = 0
    /\ hBurst = 1

\* Mounted: the useState initial values, and the effect has set its timer
HealthMounted ==
    /\ allItems \in HealthItemLists
    /\ report = NoReport
    /\ hIsLoading = TRUE
    /\ hError = NoError
    /\ hRetryCount = 0
    /\ hDebounce = DebounceMs
    /\ hRetryTimers = {}
    /\ hInFlight = {}
    /\ hIssued = 0
    /\ hSucceeded = {}
    /\ hLastInput = <<>>
    /\ hSinceItems = 0
    /\ hReqsSinceItems = 0
    /\ hSinceDeps = 0
    /\ hReqsSinceDeps = 0
    /\ hBurst = 1

\* A render with a new allItems array where the effect lacks its cleanup and
\* restart: a timer that is already set is left to run
AIHealthReport_propsChange_noRestart(newItems) ==
    /\ allItems' = newItems
    /\ hDebounce' = IF hDebounce = TimerOff THEN DebounceMs ELSE hDebounce
    /\ hSinceItems' = 0
    /\ hReqsSinceItems' = 0
    /\ hSinceDeps' = 0
    /\ hReqsSinceDeps' = 0
    /\ hBurst' = IF hSinceItems < DebounceMs THEN Min(hBurst + 1, 2) ELSE 1
    /\ UNCHANGED <<report, hIsLoading, hError, hRetryCount, hRetryTimers,
                   hInFlight, hIssued, hSucceeded, hLastInput>>

\* The parent renders with a new allItems array: fetchReport is a new
\* callback, the effect's cleanup clears the timer and the effect sets a new
\* one
AIHealthReport_propsChange(newItems) ==
    /\ allItems' = newItems
    /\ hDebounce' = DebounceMs
    /\ hSinceItems' = 0
    /\ hReqsSinceItems' = 0
    /\ hSinceDeps' = 0
    /\ hReqsSinceDeps' = 0
    /\ hBurst' = IF hSinceItems < DebounceMs THEN Min(hBurst + 1, 2) ELSE 1
    /\ UNCHANGED <<report, hIsLoading, hError, hRetryCount, hRetryTimers,
                   hInFlight, hIssued, hSucceeded, hLastInput>>

\* The debounce timer runs fetchReport, up to its await
AIHealthReport_fetchReport ==
    /\ hDebounce = 0
    /\ hDebounce' = TimerOff
    /\ IF Len(allItems) = 0
       THEN /\ hIsLoading' = FALSE
            /\ report' = NoReport
            /\ hError' = NoError
            /\ UNCHANGED <<hInFlight, hIssued, hLastInput, hReqsSinceItems,
                           hReqsSinceDeps>>
       ELSE /\ hIssued < MaxRequests
            /\ hIsLoading' = TRUE
            /\ hError' = NoError
            /\ hInFlight' = hInFlight \cup
                  {[ordinal |-> hIssued + 1,
                    input |-> AIHealthReport_reportInput(allItems)]}
            /\ hIssued' = hIssued + 1
            /\ hLastInput' = AIHealthReport_reportInput(allItems)
            /\ hReqsSinceItems' = hReqsSinceItems + 1
            /\ hReqsSinceDeps' = hReqsSinceDeps + 1
            /\ UNCHANGED report
    /\ UNCHANGED <<allItems, hRetryCount, hRetryTimers, hSucceeded,
                   hSinceItems, hSinceDeps, hBurst>>

\* await generateInventoryAnalysis(reportInput) returns: the try block's
\* remainder and the finally block
AIHealthReport_resolve(request) ==
    /\ request \in hInFlight
    /\ hInFlight' = hInFlight \ {request}
    /\ report' = ServiceResult(request)
    /\ hError' = NoError
    /\ hIsLoading' = FALSE
    /\ hSucceeded' = hSucceeded \cup {request.ordinal}
    /\ UNCHANGED <<allItems, hRetryCount, hDebounce, hRetryTimers, hIssued,
                   hLastInput, hSinceItems, hReqsSinceItems, hSinceDeps,
                   hReqsSinceDeps, hBurst>>

\* await generateInventoryAnalysis(reportInput) throws: the catch block and
\* the finally block
AIHealthReport_reject(request, failure) ==
    /\ request \in hInFlight
    /\ hInFlight' = hInFlight \ {request}
    /\ IF failure = "503"
       THEN /\ hError' = "busy"
            /\ hRetryTimers' = hRetryTimers \cup
                  {[by |-> request.ordinal, left |-> RetryMs]}
       ELSE /\ hError' = "failed"
            /\ UNCHANGED hRetryTimers
    /\ hIsLoading' = FALSE
    /\ UNCHANGED <<allItems, report, hRetryCount, hDebounce, hIssued,
                   hSucceeded, hLastInput, hSinceItems, hReqsSinceItems,
                   hSinceDeps, hReqsSinceDeps, hBurst>>

\* A retry timer runs setRetryCount(prev => prev + 1): fetchReport is a new
\* callback and the effect restarts its timer
AIHealthReport_retryTimer(timer) ==
    /\ timer \in hRetryTimers
    /\ timer.left = 0
    /\ hRetryTimers' = hRetryTimers \ {timer}
    /\ hRetryCount' = hRetryCount + 1
    /\ hDebounce' = DebounceMs
    /\ hSinceDeps' = 0
    /\ hReqsSinceDeps' = 0
    /\ UNCHANGED <<allItems, report, hIsLoading, hError, hInFlight, hIssued,
                   hSucceeded, hLastInput, hSinceItems, hReqsSinceItems,
                   hBurst>>

\* TickMs pass; no timer is due
HealthTick ==
    /\ hDebounce # 0
    /\ \A timer \in hRetryTimers : timer.left > 0
    /\ hDebounce' = IF hDebounce = TimerOff THEN TimerOff
                    ELSE hDebounce - TickMs
    /\ hRetryTimers' = {[timer EXCEPT !.left = @ - TickMs] :
                          timer \in hRetryTimers}
    /\ hSinceItems' = Min(hSinceItems + TickMs, DebounceMs + TickMs)
    /\ hSinceDeps' = Min(hSinceDeps + TickMs, DebounceMs + TickMs)
    /\ UNCHANGED <<allItems, report, hIsLoading, hError, hRetryCount,
                   hInFlight, hIssued, hSucceeded, hLastInput,
                   hReqsSinceItems, hReqsSinceDeps, hBurst>>

-----------------------------------------------------------------------------
(* AIAlert: the stock alert of the Items page's Low Stock tab.  Its effect *)
(* runs fetchAlert after every render with a new lowStockItems array or a  *)
(* new retryCount.                                                         *)

AlertRetryMs == 5000    \* AIAlert setTimeout delay

\* The stock alert has no other timer: its time passes in half delays
AlertTickMs == AlertRetryMs \div 2

\* The component is not mounted
AlertIdle ==
    /\ lowStockItems = <<>>
    /\ alert = NoReport
    /\ aIsLoading = TRUE
    /\ aError = NoError
    /\ aRetryCount = 0
    /\ aEffect = FALSE
    /\ aRetryTimers = {}
    /\ aInFlight = {}
    /\ aIssued = 0
    /\ aLastInput = <<>>

\* Mounted with the page's lowStockItems: the useState initial values, the
\* effect still to run
AlertMounted ==
    /\ lowStockItems = ItemsPage_lowStockItems(items)
    /\ alert = NoReport
    /\ aIsLoading = TRUE
    /\ aError = NoError
    /\ aRetryCount = 0
    /\ aEffect = TRUE
    /\ aRetryTimers = {}
    /\ aInFlight = {}
    /\ aIssued = 0
    /\ aLastInput = <<>>

\* The Items page renders after one of its handlers has set its state: it
\* filters lowStockItems anew and passes the array to AIAlert.  A submission
\* that the form rejects sets no state.
ItemsPage_render ==
    /\ aEffect = FALSE
    /\ IF lastOp'.op = "rejected"
       THEN UNCHANGED <<lowStockItems, aEffect>>
       ELSE /\ lowStockItems' = ItemsPage_lowStockItems(items')
            /\ aEffect' = TRUE
    /\ UNCHANGED <<alert, aIsLoading, aError, aRetryCount, aRetryTimers,
                   aInFlight, aIssued, aLastInput>>

\* The effect runs fetchAlert, up to its await
AIAlert_fetchAlert ==
    /\ aEffect = TRUE
    /\ aEffect' = FALSE
    /\ IF Len(lowStockItems) = 0
       THEN /\ aIsLoading' = FALSE
            /\ alert' = NoReport
            /\ aError' = NoError
            /\ UNCHANGED <<aInFlight, aIssued, aLastInput>>
       ELSE /\ aIssued < MaxRequests
            /\ aIsLoading' = TRUE
            /\ aError' = NoError
            /\ aInFlight' = aInFlight \cup
                  {[ordinal |-> aIssued + 1,
                    input |-> AIAlert_alertInput(lowStockItems)]}
            /\ aIssued' = aIssued + 1
            /\ aLastInput' = AIAlert_alertInput(lowStockItems)
            /\ UNCHANGED alert
    /\ UNCHANGED <<lowStockItems, aRetryCount, aRetryTimers>>

\* await generateStockAlert(alertInput) returns: setAlert(result) and the
\* finally block
AIAlert_resolve(request) ==
    /\ aEffect = FALSE
    /\ request \in aInFlight
    /\ aInFlight' = aInFlight \ {request}
    /\ alert' = ServiceResult(request)
    /\ aIsLoading' = FALSE
    /\ UNCHANGED <<lowStockItems, aError, aRetryCount, aEffect, aRetryTimers,
                   aIssued, aLastInput>>

\* A catch block that schedules the retry whatever the failure
AIAlert_reject_alwaysRetry(request, failure) ==
    /\ aEffect = FALSE
    /\ request \in aInFlight
    /\ aInFlight' = aInFlight \ {request}
    /\ aError' = IF failure \in {"429", "503"} THEN "busy" ELSE "failed"
    /\ aRetryTimers' = aRetryTimers \cup
          {[by |-> request.ordinal, left |-> AlertRetryMs]}
    /\ aIsLoading' = FALSE
    /\ UNCHANGED <<lowStockItems, alert, aRetryCount, aEffect, aIssued,
                   aLastInput>>

\* await generateStockAlert(alertInput) throws: the catch block and the
\* finally block
AIAlert_reject(request, failure) ==
    /\ aEffect = FALSE
    /\ request \in aInFlight
    /\ aInFlight' = aInFlight \ {request}
    /\ IF failure \in {"429", "503"}
       THEN /\ aError' = "busy"
            /\ aRetryTimers' = aRetryTimers \cup
                  {[by |-> request.ordinal, left |-> AlertRetryMs]}
       ELSE /\ aError' = "failed"
            /\ UNCHANGED aRetryTimers
    /\ aIsLoading' = FALSE
    /\ UNCHANGED <<lowStockItems, alert, aRetryCount, aEffect, aIssued,
                   aLastInput>>

\* A retry timer runs setRetryCount(prev => prev + 1): fetchAlert is a new
\* callback and the effect is to run again
AIAlert_retryTimer(timer) ==
    /\ aEffect = FALSE
    /\ timer \in aRetryTimers
    /\ timer.left = 0
    /\ aRetryTimers' = aRetryTimers \ {timer}
    /\ aRetryCount' = aRetryCount + 1
    /\ aEffect' = TRUE
    /\ UNCHANGED <<lowStockItems, alert, aIsLoading, aError, aInFlight,
                   aIssued, aLastInput>>

\* AlertTickMs pass; no effect is to run and no timer is due
AlertTick ==
    /\ aEffect = FALSE
    /\ \A timer \in aRetryTimers : timer.left > 0
    /\ aRetryTimers # {}
    /\ aRetryTimers' = {[timer EXCEPT !.left = @ - AlertTickMs] :
                          timer \in aRetryTimers}
    /\ UNCHANGED <<lowStockItems, alert, aIsLoading, aError, aRetryCount,
                   aEffect, aInFlight, aIssued, aLastInput>>

-----------------------------------------------------------------------------
(* ReportsPage: the analysis request its effect issues once the stored     *)
(* collections are loaded                                                  *)

\* The page is not mounted
ReportsIdle ==
    /\ aiReport = NoReport
    /\ isGenerating = FALSE
    /\ rError = NoError
    /\ rEffect = FALSE
    /\ rInFlight = {}
    /\ rIssued = 0
    /\ exportLog = <<>>

\* Mounted and loaded: the useState initial values, the effect on
\* [items, isLoading] still to run with isLoading false
ReportsMounted ==
    /\ aiReport = NoReport
    /\ isGenerating = FALSE
    /\ rError = NoError
    /\ rEffect = TRUE
    /\ rInFlight = {}
    /\ rIssued = 0
    /\ exportLog = <<>>

\* What the analysis service answers to the Reports page: the result is
\* tagged with its request; analysis is the list of its sections, a section
\* the list of its points, and a point the number of lines its text wraps to
\* in the consolidated PDF (the result's own item tables are left empty)
ReportsServiceResult(request, analysis) ==
    [request |-> request.ordinal, analysis |-> analysis]

\* Analyses the service answers with: none, short ones, one whose second
\* section starts near the bottom of the page, one whose point goes to the
\* next page, one whose point is longer than a page
Analyses ==
    {<<>>, <<<<1>>>>, <<<<1, 2>>, <<3>>>>, <<<<40>>, <<2>>>>,
     <<<<43>>, <<1>>>>, <<<<46>>>>}

\* The effect runs fetchReport, up to its await
ReportsPage_fetchReport ==
    /\ rEffect = TRUE
    /\ rEffect' = FALSE
    /\ IF Len(items) = 0
       THEN /\ aiReport' = NoReport
            /\ UNCHANGED <<isGenerating, rError, rInFlight, rIssued>>
       ELSE /\ isGenerating' = TRUE
            /\ rError' = NoError
            /\ rInFlight' = rInFlight \cup
                  {[ordinal |-> rIssued + 1,
                    input |-> ReportsPage_reportInput(items)]}
            /\ rIssued' = rIssued + 1
            /\ UNCHANGED aiReport
    /\ UNCHANGED exportLog

\* await generateInventoryAnalysis(reportInput) returns: setAiReport(result)
\* and the finally block
ReportsPage_resolve(request, analysis) ==
    /\ rEffect = FALSE
    /\ request \in rInFlight
    /\ rInFlight' = rInFlight \ {request}
    /\ aiReport' = ReportsServiceResult(request, analysis)
    /\ isGenerating' = FALSE
    /\ UNCHANGED <<rError, rEffect, rIssued, exportLog>>

\* await generateInventoryAnalysis(reportInput) throws: the catch block,
\* which does not look at the error, and the finally block
ReportsPage_reject(request, failure) ==
    /\ rEffect = FALSE
    /\ request \in rInFlight
    /\ failure \in Failures
    /\ rInFlight' = rInFlight \ {request}
    /\ rError' = "failed"
    /\ isGenerating' = FALSE
    /\ UNCHANGED <<aiReport, rEffect, rIssued, exportLog>>

-----------------------------------------------------------------------------
(* ReportsPage: the documents its export functions build.  A workbook is   *)
(* its sheets with their rows, a PDF its pages with what is stamped on     *)
(* each.                                                                   *)

\* ReportsPage: lowStockItems, inStockItems
ReportsPage_lowStockItems(its) ==
    SelectSeq(its, LAMBDA item : item.quantity = 0)

ReportsPage_inStockItems(its) ==
    SelectSeq(its, LAMBDA item : item.quantity > 0)

\* ReportsPage: totalRevenue = soldItems.reduce(sum + price * quantitySold, 0)
RECURSIVE ReportsPage_totalRevenue(_)
ReportsPage_totalRevenue(sold) ==
    IF Len(sold) = 0 THEN 0
    ELSE ReportsPage_totalRevenue(SubSeq(sold, 1, Len(sold) - 1))
         + sold[Len(sold)].price * sold[Len(sold)].quantitySold

\* A cell: its type and its value.  Names, supplier names and dates are free
\* text that the model's records leave out: the record's id stands for them.
Cell(t, v) == [t |-> t, v |-> v]
Str(s) == Cell("s", s)
Num(n) == Cell("n", n)

\* XLSX.utils.json_to_sheet(data): a header row of the keys and one row of
\* values for each object (an object is the sequence of its <<key, value>>
\* pairs); nothing for an empty array
json_to_sheet(data) ==
    IF Len(data) = 0 THEN <<>>
    ELSE <<[k \in 1 .. Len(data[1]) |-> Str(data[1][k][1])]>>
         \o [r \in 1 .. Len(data) |->
                [k \in 1 .. Len(data[r]) |-> data[r][k][2]]]

\* XLSX.utils.sheet_add_aoa(ws, rows, {origin: -1}): the rows are added below
\* the sheet's last row, their cells from the first column on
sheet_add_aoa(ws, rows) == ws \o rows

\* The name of the first category, whatever the item's categoryId
CategoryNameOf_first(cats, categoryId) ==
    IF Len(cats) > 0 THEN Cell("category", cats[1].id) ELSE Str("N/A")

\* categories.find(c => c.id === item.categoryId)?.name || 'N/A'
CategoryNameOf(cats, categoryId) ==
    IF \E k \in DOMAIN cats : cats[k].id = categoryId
    THEN Cell("category",
              cats[CHOOSE k \in DOMAIN cats :
                      /\ cats[k].id = categoryId
                      /\ \A j \in 1 .. k - 1 : cats[j].id # categoryId].id)
    ELSE Str("N/A")

\* The row objects of the Low Stock Items sheet
LowStockData(its) ==
    SeqMap(its, LAMBDA item :
        <<<<"Name", Cell("name", item.id)>>,
          <<"SKU", Cell("sku", item.sku)>>,
          <<"Quantity", Num(item.quantity)>>,
          <<"Re-order Point", Num(item.reorderPoint)>>,
          <<"Supplier Name", Cell("supplier", item.id)>>>>)

\* The row objects of the Full Inventory sheet
FullInventoryData(its, cats) ==
    SeqMap(its, LAMBDA item :
        <<<<"Name", Cell("name", item.id)>>,
          <<"SKU", Cell("sku", item.sku)>>,
          <<"Category", CategoryNameOf(cats, item.categoryId)>>,
          <<"Quantity", Num(item.quantity)>>,
          <<"Price", Num(item.price)>>,
          <<"Re-order Point", Num(item.reorderPoint)>>,
          <<"Supplier Name", Cell("supplier", item.id)>>>>)

\* The row objects of the In-Stock Items sheet
InStockData(its, cats) ==
    SeqMap(its, LAMBDA item :
        <<<<"Name", Cell("name", item.id)>>,
          <<"SKU", Cell("sku", item.sku)>>,
          <<"Category", CategoryNameOf(cats, item.categoryId)>>,
          <<"Quantity", Num(item.quantity)>>,
          <<"Price", Num(item.price)>>>>)

\* soldData
SoldData(sold) ==
    SeqMap(sold, LAMBDA item :
        <<<<"Item Name", Cell("name", item.itemId)>>,
          <<"SKU", Cell("sku", item.sku)>>,
          <<"Quantity Sold", Num(item.quantitySold)>>,
          <<"Price per Item", Num(item.price)>>,
          <<"Total Revenue", Num(item.price * item.quantitySold)>>,
          <<"Date Sold", Cell("date", item.id)>>>>)

\* The row objects of the Categories sheet (descriptions are left out of the
\* model's categories: category.description || 'N/A')
CategoriesData(cats) ==
    SeqMap(cats, LAMBDA category :
        <<<<"Name", Cell("category", category.id)>>,
          <<"Description", Str("N/A")>>,
          <<"Item Count", Num(category.itemCount)>>>>)

\* The trailing row with the total in the fourth column
SoldItemsSheet_totalInFourthColumn ==
    sheet_add_aoa(json_to_sheet(SoldData(soldItems)),
                  <<<<Str(""), Str(""), Str("Total Revenue"),
                      Num(ReportsPage_totalRevenue(soldItems))>>>>)

\* ws_sold_items / ws of exportSoldItemsExcel
SoldItemsSheet ==
    sheet_add_aoa(json_to_sheet(SoldData(soldItems)),
                  <<<<Str(""), Str(""), Str(""), Str("Total Revenue"),
                      Num(ReportsPage_totalRevenue(soldItems))>>>>)

Workbook(name, sheets) == [format |-> "xlsx", name |-> name, sheets |-> sheets]

exportLowStockExcel ==
    Workbook("low-stock-report",
        <<[name |-> "Low Stock Items",
           rows |-> json_to_sheet(
                       LowStockData(ReportsPage_lowStockItems(items)))]>>)

exportFullInventoryExcel ==
    Workbook("full-inventory-report",
        <<[name |-> "Full Inventory",
           rows |-> json_to_sheet(FullInventoryData(items, categories))]>>)

exportSoldItemsExcel ==
    Workbook("sold-items-report",
        <<[name |-> "Sold Items", rows |-> SoldItemsSheet]>>)

exportConsolidatedExcel ==
    Workbook("consolidated-inventory-report",
        <<[name |-> "Low Stock Items",
           rows |-> json_to_sheet(
                       LowStockData(ReportsPage_lowStockItems(items)))],
          [name |-> "Full Inventory",
           rows |-> json_to_sheet(FullInventoryData(items, categories))],
          [name |-> "In-Stock Items",
           rows |-> json_to_sheet(
                       InStockData(ReportsPage_inStockItems(items),
                                   categories))],
          [name |-> "Sold Items", rows |-> SoldItemsSheet],
          [name |-> "Categories",
           rows |-> json_to_sheet(CategoriesData(categories))]>>)

\* A page of a jsPDF document: the section drawn on it, the watermarks and
\* the footers stamped on it
Page(section) == [section |-> section, watermarks |-> 0, footers |-> <<>>]

\* autoTable(doc, {body}): the table starts on the current page and adds a
\* page whenever RowsPerPage rows are drawn and rows remain
autoTable(pages, section, rows) ==
    LET needed == (rows + RowsPerPage - 1) \div RowsPerPage
    IN  pages \o [k \in 1 .. Max(0, needed - 1) |-> Page(section)]

\* A stamping done from didDrawPage, page by page, while the document grows
addPageNumbers_whileDrawing(pages) ==
    [i \in 1 .. Len(pages) |->
        [pages[i] EXCEPT !.watermarks = @ + 1,
                         !.footers = Append(@, [page |-> i, of |-> i])]]

\* setupPdfDoc.addPageNumbers with addWatermark: for i = 1 .. pageCount
addPageNumbers(pages) ==
    [i \in 1 .. Len(pages) |->
        [pages[i] EXCEPT !.watermarks = @ + 1,
                         !.footers = Append(@, [page |-> i, of |-> Len(pages)])]]

Pdf(name, pages) == [format |-> "pdf", name |-> name, pages |-> pages]

\* Number.prototype.toFixed(2) of an amount held in hundredths, behind "$"
toFixed(amount) ==
    [units |-> amount \div 100, hundredths |-> amount % 100]

\* The head and foot rows of the Sold Items table of a PDF
SoldItemsTable ==
    [head |-> <<"Item Name", "SKU", "Qty Sold", "Unit Price", "Total Revenue",
                "Date Sold">>,
     foot |-> <<[content |-> Str("Total Revenue"), colSpan |-> 4],
                [content |-> Cell("$", toFixed(ReportsPage_totalRevenue(
                                                  soldItems))),
                 colSpan |-> 1],
                [content |-> Str(""), colSpan |-> 1]>>]

exportLowStockPDF ==
    Pdf("low-stock-report",
        addPageNumbers(autoTable(<<Page("low-stock")>>, "low-stock",
                                 Len(ReportsPage_lowStockItems(items)))))

exportFullInventoryPDF ==
    Pdf("full-inventory-report",
        addPageNumbers(autoTable(<<Page("full-inventory")>>, "full-inventory",
                                 Len(items))))

exportSoldItemsPDF ==
    Pdf("sold-items-report",
        addPageNumbers(autoTable(<<Page("sold-items")>>, "sold-items",
                                 Len(soldItems))))
    @@ [soldItems |-> SoldItemsTable]

ChartTop == 10     \* slice(0, 10)

\* Array.prototype.sort with the comparator (a, b) => b.quantity - a.quantity:
\* a stable sort, so an element goes behind every element already placed
\* whose quantity is not smaller
RECURSIVE SortByQuantityDesc(_)
SortByQuantityDesc(its) ==
    IF Len(its) = 0 THEN <<>>
    ELSE LET sorted == SortByQuantityDesc(SubSeq(its, 1, Len(its) - 1))
             last == its[Len(its)]
             ahead == Cardinality({k \in DOMAIN sorted :
                                      sorted[k].quantity >= last.quantity})
         IN  SubSeq(sorted, 1, ahead) \o <<last>>
             \o SubSeq(sorted, ahead + 1, Len(sorted))

\* exportConsolidatedPDF: chartData = [...items].sort(...).slice(0, 10)
exportConsolidatedPDF_chartData(its) ==
    SubSeq(SortByQuantityDesc(its), 1, Min(ChartTop, Len(its)))

\* A JavaScript number that a division gives: the quotient num / den, or
\* Infinity for x / 0, or NaN for 0 / 0
Finite(num, den) == [kind |-> "finite", num |-> num, den |-> den]
Infinity == [kind |-> "Infinity", num |-> 0, den |-> 0]
NaN == [kind |-> "NaN", num |-> 0, den |-> 0]

\* (a / b) * c for integers a >= 0, b >= 0, c > 0
DivideTimes(a, b, c) ==
    IF b # 0 THEN Finite(a * c, b)
    ELSE IF a = 0 THEN NaN ELSE Infinity

ChartHeight == 80  \* chartHeight

\* Math.max(...chartData.map(d => d.quantity), 0)
RECURSIVE MaxQuantity(_)
MaxQuantity(chartData) ==
    IF Len(chartData) = 0 THEN 0
    ELSE Max(chartData[Len(chartData)].quantity,
             MaxQuantity(SubSeq(chartData, 1, Len(chartData) - 1)))

\* The Stock Level Chart of the consolidated PDF, drawn when chartData is not
\* empty: the height of each bar, and for i = 0 .. 5 the label
\* Math.round((maxQuantity / 5) * i) with the distance of its gridline from
\* the x-axis, (value / maxQuantity) * chartHeight
StockLevelChart(chartData) ==
    LET maxQuantity == MaxQuantity(chartData)
    IN  IF Len(chartData) > 0
        THEN [bars |->
                 [k \in DOMAIN chartData |->
                     IF maxQuantity > 0
                     THEN DivideTimes(chartData[k].quantity, maxQuantity,
                                      ChartHeight)
                     ELSE Finite(0, 1)],
              gridlines |->
                 [n \in 1 .. 6 |->
                     LET value == (2 * maxQuantity * (n - 1) + 5) \div 10
                     IN  [value |-> value,
                          up |-> DivideTimes(value, maxQuantity,
                                             ChartHeight)]]]
        ELSE [bars |-> <<>>, gridlines |-> <<>>]

PageHeight == 297  \* doc.internal.pageSize.height of new jsPDF() (a4, mm)

\* What the AI health section draws, in order: a page added, the header, a
\* text block with the cursor before its fit test, where it is drawn and the
\* height the fit test gives it
AddPage == [ev |-> "addPage"]
Header == [ev |-> "header"]
Text(kind, cursor, y, height) ==
    [ev |-> "text", kind |-> kind, cursor |-> cursor, y |-> y,
     height |-> height]

\* if (finalY + height > pageHeight - 30) { addPage; header; finalY = 40 }
\* then the block is drawn at finalY
FitThenDraw(lay, kind, height) ==
    LET fits == ~(lay.finalY + height > PageHeight - 30)
        y == IF fits THEN lay.finalY ELSE 40
    IN  [finalY |-> y,
         events |-> (IF fits THEN lay.events
                     ELSE lay.events \o <<AddPage, Header>>)
                    \o <<Text(kind, lay.finalY, y, height)>>]

\* section.points.forEach: a point of n lines is n * 5 high
RECURSIVE DrawPoints(_, _, _)
DrawPoints(lay, points, k) ==
    IF k > Len(points) THEN lay
    ELSE LET drawn == FitThenDraw(lay, "point", points[k] * 5)
         IN  DrawPoints([drawn EXCEPT !.finalY = @ + points[k] * 5],
                        points, k + 1)

\* aiReport.analysis.forEach: the title is tested with height 10 and moves
\* the cursor by 6, the section ends 4 lower
RECURSIVE DrawSections(_, _, _)
DrawSections(lay, analysis, k) ==
    IF k > Len(analysis) THEN lay
    ELSE LET title == FitThenDraw(lay, "title", 10)
             points == DrawPoints([title EXCEPT !.finalY = @ + 6],
                                  analysis[k], 1)
         IN  DrawSections([points EXCEPT !.finalY = @ + 4], analysis, k + 1)

\* The AI Inventory Health section: a new page with the header, the heading
\* at 40 and the score at 50, then the sections from 60 on
HealthSection(analysis) ==
    DrawSections([finalY |-> 60, events |-> <<AddPage, Header>>],
                 analysis, 1).events

\* exportConsolidatedPDF past its guard: title page, the analysis section when
\* there are items, the three report sections, then the stamping
exportConsolidatedPDF ==
    LET title == <<Page("title")>>
        health ==
            IF Len(items) > 0 THEN HealthSection(aiReport.analysis) ELSE <<>>
        analysis ==
            title \o [k \in 1 .. Len(SelectSeq(health,
                                               LAMBDA e : e = AddPage)) |->
                         Page("analysis")]
        lowStock ==
            autoTable(Append(analysis, Page("low-stock")), "low-stock",
                      Len(ReportsPage_lowStockItems(items)))
        fullInventory ==
            autoTable(Append(lowStock, Page("full-inventory")),
                      "full-inventory", Len(items))
        sold ==
            autoTable(Append(fullInventory, Page("sold-items")), "sold-items",
                      Len(soldItems))
    IN  Pdf("consolidated-inventory-report", addPageNumbers(sold))
        @@ [chartData |-> exportConsolidatedPDF_chartData(items),
            chart |-> StockLevelChart(exportConsolidatedPDF_chartData(items)),
            health |-> health,
            soldItems |-> SoldItemsTable]

\* doc.save / XLSX.writeFile
Save(document) ==
    /\ rEffect = FALSE
    /\ Len(exportLog) < MaxExports
    /\ exportLog' = Append(exportLog, document)

\* The consolidated menu's button and items: disabled={isGenerating || !aiReport}
ConsolidatedExportEnabled_always == TRUE

ConsolidatedExportEnabled == ~(isGenerating \/ aiReport = NoReport)

\* A coordinate handed to doc.text and doc.line is not a number. What jsPDF
\* does with it is not part of the sources: the call throws or it draws.
exportConsolidatedPDF_invalidArguments ==
    \E n \in DOMAIN exportConsolidatedPDF.chart.gridlines :
        exportConsolidatedPDF.chart.gridlines[n].up.kind # "finite"

\* exportConsolidatedPDF called: return without a report; else
\* setIsGenerating(true), build the document, doc.save and
\* setIsGenerating(false). No try / catch / finally surrounds the build: an
\* exception of a drawing call leaves the function before doc.save and
\* before setIsGenerating(false).
exportConsolidatedPDF_call ==
    IF aiReport = NoReport
    THEN UNCHANGED <<exportLog, isGenerating>>
    ELSE \/ /\ Save(exportConsolidatedPDF)
            /\ isGenerating' = FALSE
         \/ /\ rEffect = FALSE
            /\ exportConsolidatedPDF_invalidArguments
            /\ isGenerating' = TRUE
            /\ UNCHANGED exportLog

\* Click on "Export as PDF" of the consolidated menu: exportConsolidatedPDF
ReportsPage_exportConsolidatedPDF ==
    /\ ConsolidatedExportEnabled
    /\ exportConsolidatedPDF_call
    /\ UNCHANGED <<aiReport, rError, rEffect, rInFlight, rIssued>>

\* Click on "Export as Excel" of the consolidated menu
ReportsPage_exportConsolidatedExcel ==
    /\ ConsolidatedExportEnabled
    /\ Save(exportConsolidatedExcel)
    /\ UNCHANGED <<aiReport, isGenerating, rError, rEffect, rInFlight, rIssued>>

\* Click on an export item of one of the three report cards
ReportsPage_exportReport(document) ==
    /\ Save(document)
    /\ UNCHANGED <<aiReport, isGenerating, rError, rEffect, rInFlight, rIssued>>

-----------------------------------------------------------------------------
(* What the Dashboard and the Reports page derive from their collections   *)
(* on every render                                                         *)

NotRendered == [rendered |-> FALSE]

RenderIdle ==
    /\ dashboardStats = NotRendered
    /\ reportsStock = NotRendered
    /\ alertCard = NotRendered

\* DashboardPage: lowStockItemsCount with the filter on quantity <= reorderPoint
DashboardPage_lowStockItemsCount_reorderPoint(its) ==
    Len(SelectSeq(its, LAMBDA item : item.quantity <= item.reorderPoint))

\* DashboardPage: lowStockItemsCount
DashboardPage_lowStockItemsCount(its) ==
    Len(SelectSeq(its, LAMBDA item : item.quantity = 0))

\* A total that adds the prices and leaves the quantities out
RECURSIVE DashboardPage_totalValue_prices(_)
DashboardPage_totalValue_prices(its) ==
    IF Len(its) = 0 THEN 0
    ELSE DashboardPage_totalValue_prices(SubSeq(its, 1, Len(its) - 1))
         + its[Len(its)].price

\* DashboardPage: totalValue = items.reduce(sum + quantity * price, 0)
RECURSIVE DashboardPage_totalValue(_)
DashboardPage_totalValue(its) ==
    IF Len(its) = 0 THEN 0
    ELSE DashboardPage_totalValue(SubSeq(its, 1, Len(its) - 1))
         + its[Len(its)].quantity * its[Len(its)].price

\* DashboardPage: totalRevenue = soldItems.reduce(sum + quantitySold * price, 0)
RECURSIVE DashboardPage_totalRevenue(_)
DashboardPage_totalRevenue(sold) ==
    IF Len(sold) = 0 THEN 0
    ELSE DashboardPage_totalRevenue(SubSeq(sold, 1, Len(sold) - 1))
         + sold[Len(sold)].quantitySold * sold[Len(sold)].price

\* StockChart({ items }): chartData = items.slice(0, 10).map(name, quantity);
\* the item's id stands for its name
StockChart(its) ==
    SeqMap(SubSeq(its, 1, Min(ChartTop, Len(its))),
           LAMBDA item : [id |-> item.id, quantity |-> item.quantity])

\* DashboardPage renders: the numbers of its cards and <StockChart items>
DashboardPage_render ==
    /\ page = "dashboard"
    /\ dashboardStats' =
          [totalItems |-> Len(items),
           lowStockItemsCount |-> DashboardPage_lowStockItemsCount(items),
           totalValue |-> DashboardPage_totalValue(items),
           totalRevenue |-> DashboardPage_totalRevenue(soldItems),
           categoryCount |-> Len(categories),
           chartData |-> StockChart(items)]
    /\ UNCHANGED <<reportsStock, alertCard>>

\* ReportsPage renders: the lists of its report cards
ReportsPage_render ==
    /\ page = "reports"
    /\ reportsStock' =
          [lowStockItems |-> ReportsPage_lowStockItems(items),
           inStockItems |-> ReportsPage_inStockItems(items),
           totalRevenue |-> ReportsPage_totalRevenue(soldItems)]
    /\ UNCHANGED <<dashboardStats, alertCard>>

\* A sort by priority with the largest number first
RECURSIVE SortByPriority_descending(_)
SortByPriority_descending(actions) ==
    IF Len(actions) = 0 THEN <<>>
    ELSE LET sorted ==
                 SortByPriority_descending(SubSeq(actions, 1, Len(actions) - 1))
             last == actions[Len(actions)]
             ahead == Cardinality({k \in DOMAIN sorted :
                                      sorted[k].priority >= last.priority})
         IN  SubSeq(sorted, 1, ahead) \o <<last>>
             \o SubSeq(sorted, ahead + 1, Len(sorted))

\* suggestedActions.sort((a, b) => a.priority - b.priority): a stable sort, so
\* an action goes behind every action already placed whose priority is not
\* larger
RECURSIVE SortByPriority(_)
SortByPriority(actions) ==
    IF Len(actions) = 0 THEN <<>>
    ELSE LET sorted == SortByPriority(SubSeq(actions, 1, Len(actions) - 1))
             last == actions[Len(actions)]
             ahead == Cardinality({k \in DOMAIN sorted :
                                      sorted[k].priority <= last.priority})
         IN  SubSeq(sorted, 1, ahead) \o <<last>>
             \o SubSeq(sorted, ahead + 1, Len(sorted))

\* AIAlert renders its card: past the early returns, the rows of the actions
\* table are alert.suggestedActions sorted in place; "returned" keeps the
\* array as it was before the sort
AIAlert_render ==
    /\ Len(lowStockItems) # 0
    /\ aIsLoading = FALSE
    /\ aError = NoError
    /\ alert # NoReport
    /\ alertCard' =
          [returned |-> alert.suggestedActions,
           suggestedActions |-> SortByPriority(alert.suggestedActions)]
    /\ alert' = [alert EXCEPT
                    !.suggestedActions = SortByPriority(alert.suggestedActions)]
    /\ UNCHANGED <<lowStockItems, aIsLoading, aError, aRetryCount, aEffect,
                   aRetryTimers, aInFlight, aIssued, aLastInput>>
    /\ UNCHANGED <<dashboardStats, reportsStock>>

-----------------------------------------------------------------------------
(* The inventory specifications *)

InitCategories ==
    <<[id |-> "c1", itemCount |-> 0], [id |-> "c2", itemCount |-> 0]>>

\* Two categories created on the Categories page (handleAddCategory gives a
\* new category itemCount 0), no item, no sale, the Items page mounted
InvInit ==
    /\ storeItems = <<>>
    /\ storeCategories = InitCategories
    /\ storeSoldItems = <<>>
    /\ page = "items"
    /\ items = <<>>
    /\ categories = InitCategories
    /\ soldItems = <<>>
    /\ itemsCreated = 0
    /\ lastOp = Op("load", 0)

MetricsIdle ==
    /\ mSku = <<>>
    /\ mItemsPage = NotCalled
    /\ mDashboard = NotCalled

Init ==
    InvInit /\ MetricsIdle /\ HealthIdle /\ AlertIdle /\ ReportsIdle /\ RenderIdle

\* The Items page: create, edit, delete, sell
Next ==
    \/ \E values \in FormValues :
          ItemForm_onSubmit_add(values) /\ UNCHANGED <<metricVars, reportsVars, healthVars, alertVars, renderVars>>
    \/ \E k \in 1 .. Len(items) : \E values \in FormValues :
          ItemForm_onSubmit_edit(items[k], values) /\ UNCHANGED <<metricVars, reportsVars, healthVars, alertVars, renderVars>>
    \/ \E k \in 1 .. Len(items) :
          handleDelete(items[k]) /\ UNCHANGED <<metricVars, reportsVars, healthVars, alertVars, renderVars>>
    \/ \E k \in 1 .. Len(items) : \E q \in SellInputs :
          handleSellConfirm(items[k], q) /\ UNCHANGED <<metricVars, reportsVars, healthVars, alertVars, renderVars>>

Spec == Init /\ [][Next]_vars

\* Create and edit on the Items page, and navigation between the pages
NextPages ==
    \/ \E values \in PagesFormValues :
          ItemForm_onSubmit_add(values) /\ UNCHANGED <<metricVars, reportsVars, healthVars, alertVars, renderVars>>
    \/ \E k \in 1 .. Len(items) : \E values \in PagesFormValues :
          ItemForm_onSubmit_edit(items[k], values) /\ UNCHANGED <<metricVars, reportsVars, healthVars, alertVars, renderVars>>
    \/ ItemsPage_load /\ UNCHANGED <<metricVars, reportsVars, healthVars, alertVars, renderVars>>
    \/ DashboardPage_load /\ UNCHANGED <<metricVars, reportsVars, healthVars, alertVars, renderVars>>
    \/ ReportsPage_load /\ UNCHANGED <<metricVars, reportsVars, healthVars, alertVars, renderVars>>

SpecPages == Init /\ [][NextPages]_vars

\* The metric functions called with every SKU of the bounded set
InitMetrics ==
    /\ InvInit
    /\ HealthIdle
    /\ AlertIdle
    /\ ReportsIdle
    /\ RenderIdle
    /\ mSku \in SkuStrings
    /\ mItemsPage = NotCalled
    /\ mDashboard = NotCalled

NextMetrics ==
    \/ ItemsPage_callGetDeterministicItemData /\ UNCHANGED <<invVars, healthVars, alertVars, reportsVars, renderVars>>
    \/ DashboardPage_callGetDeterministicItemData /\ UNCHANGED <<invVars, healthVars, alertVars, reportsVars, renderVars>>

SpecMetrics == InitMetrics /\ [][NextMetrics]_vars

\* The health-report component under changes of its prop, the service's
\* answers and the passing of time
InitHealth ==
    /\ InvInit /\ MetricsIdle /\ HealthMounted /\ AlertIdle /\ ReportsIdle
    /\ RenderIdle

NextHealth ==
    \/ \E newItems \in HealthItemLists :
          AIHealthReport_propsChange(newItems)
          /\ UNCHANGED <<invVars, metricVars, reportsVars, alertVars, renderVars>>
    \/ AIHealthReport_fetchReport /\ UNCHANGED <<invVars, metricVars, reportsVars, alertVars, renderVars>>
    \/ \E request \in hInFlight :
          AIHealthReport_resolve(request) /\ UNCHANGED <<invVars, metricVars, reportsVars, alertVars, renderVars>>
    \/ \E request \in hInFlight : \E failure \in Failures :
          AIHealthReport_reject(request, failure)
          /\ UNCHANGED <<invVars, metricVars, reportsVars, alertVars, renderVars>>
    \/ \E timer \in hRetryTimers :
          AIHealthReport_retryTimer(timer) /\ UNCHANGED <<invVars, metricVars, reportsVars, alertVars, renderVars>>
    \/ HealthTick /\ UNCHANGED <<invVars, metricVars, reportsVars, alertVars, renderVars>>

SpecHealth == InitHealth /\ [][NextHealth]_vars

\* The Items page with its Low Stock tab open: the items it loaded, the
\* stock alert mounted
AlertItem(id, sku, quantity, reorderPoint) ==
    [id |-> id, sku |-> sku, categoryId |-> "c1", quantity |-> quantity,
     price |-> 10, reorderPoint |-> reorderPoint,
     averageDailySales |->
        ItemsPage_getDeterministicItemData(sku).averageDailySales,
     leadTimeDays |-> ItemsPage_getDeterministicItemData(sku).leadTimeDays]

AlertItemLists ==
    {<<>>, <<AlertItem(1, SkuA, 0, 5)>>, <<AlertItem(1, SkuAB, 2, 1)>>}

InitAlert ==
    /\ storeItems \in AlertItemLists
    /\ storeCategories =
          <<[id |-> "c1", itemCount |-> Len(storeItems)],
            [id |-> "c2", itemCount |-> 0]>>
    /\ storeSoldItems = <<>>
    /\ page = "items"
    /\ items = storeItems
    /\ categories = storeCategories
    /\ soldItems = <<>>
    /\ itemsCreated = Len(storeItems)
    /\ lastOp = Op("load", 0)
    /\ MetricsIdle
    /\ HealthIdle
    /\ AlertMounted
    /\ ReportsIdle
    /\ RenderIdle

NextAlert ==
    \/ \E values \in AlertFormValues :
          ItemForm_onSubmit_add(values) /\ ItemsPage_render
          /\ UNCHANGED <<metricVars, reportsVars, healthVars, renderVars>>
    \/ \E k \in 1 .. Len(lowStockItems) : \E values \in AlertFormValues :
          ItemForm_onSubmit_edit(lowStockItems[k], values) /\ ItemsPage_render
          /\ UNCHANGED <<metricVars, reportsVars, healthVars, renderVars>>
    \/ \E k \in 1 .. Len(lowStockItems) :
          handleDelete(lowStockItems[k]) /\ ItemsPage_render
          /\ UNCHANGED <<metricVars, reportsVars, healthVars, renderVars>>
    \/ AIAlert_fetchAlert /\ UNCHANGED <<invVars, metricVars, reportsVars, healthVars, renderVars>>
    \/ \E request \in aInFlight :
          AIAlert_resolve(request)
          /\ UNCHANGED <<invVars, metricVars, reportsVars, healthVars, renderVars>>
    \/ \E request \in aInFlight : \E failure \in Failures :
          AIAlert_reject(request, failure)
          /\ UNCHANGED <<invVars, metricVars, reportsVars, healthVars, renderVars>>
    \/ \E timer \in aRetryTimers :
          AIAlert_retryTimer(timer)
          /\ UNCHANGED <<invVars, metricVars, reportsVars, healthVars, renderVars>>
    \/ AlertTick /\ UNCHANGED <<invVars, metricVars, reportsVars, healthVars, renderVars>>

SpecAlert == InitAlert /\ [][NextAlert]_vars

\* The Reports page: the collections it loaded, its analysis request, its
\* export menus
ReportsItem(id, quantity) ==
    [AlertItem(id, SkuAB, quantity, 1) EXCEPT
        !.categoryId = IF id = 2 THEN "c2" ELSE "c1"]

ReportsCategories(its) ==
    <<[id |-> "c1",
       itemCount |-> CategoriesPage_categoryItemCounts(its, "c1")],
      [id |-> "c2",
       itemCount |-> CategoriesPage_categoryItemCounts(its, "c2")]>>

ReportsItemLists ==
    {<<>>, <<ReportsItem(1, 0)>>, <<ReportsItem(1, 0), ReportsItem(2, 2)>>,
     <<ReportsItem(1, 0), ReportsItem(2, 2), ReportsItem(3, 0)>>,
     <<ReportsItem(1, 0), ReportsItem(2, 0), ReportsItem(3, 0)>>}

ReportsSale(id) ==
    [id |-> id, itemId |-> 2, sku |-> SkuAB, quantitySold |-> id,
     price |-> 1999]

ReportsSoldLists ==
    {<<>>, <<ReportsSale(1)>>,
     <<ReportsSale(1), ReportsSale(2), ReportsSale(3)>>}

InitReports ==
    /\ storeItems \in ReportsItemLists
    /\ storeCategories = ReportsCategories(storeItems)
    /\ storeSoldItems \in ReportsSoldLists
    /\ page = "reports"
    /\ items = storeItems
    /\ categories = storeCategories
    /\ soldItems = storeSoldItems
    /\ itemsCreated = Len(storeItems)
    /\ lastOp = Op("load", 0)
    /\ MetricsIdle
    /\ HealthIdle
    /\ AlertIdle
    /\ ReportsMounted
    /\ RenderIdle

NextReports ==
    \/ ReportsPage_fetchReport
          /\ UNCHANGED <<invVars, metricVars, healthVars, alertVars, renderVars>>
    \/ \E request \in rInFlight : \E analysis \in Analyses :
          ReportsPage_resolve(request, analysis)
          /\ UNCHANGED <<invVars, metricVars, healthVars, alertVars, renderVars>>
    \/ \E request \in rInFlight : \E failure \in Failures :
          ReportsPage_reject(request, failure)
          /\ UNCHANGED <<invVars, metricVars, healthVars, alertVars, renderVars>>
    \/ ReportsPage_exportConsolidatedPDF
          /\ UNCHANGED <<invVars, metricVars, healthVars, alertVars, renderVars>>
    \/ ReportsPage_exportConsolidatedExcel
          /\ UNCHANGED <<invVars, metricVars, healthVars, alertVars, renderVars>>
    \/ \E document \in {exportLowStockPDF, exportFullInventoryPDF,
                         exportSoldItemsPDF} :
          ReportsPage_exportReport(document)
          /\ UNCHANGED <<invVars, metricVars, healthVars, alertVars, renderVars>>
    \/ \E document \in {exportLowStockExcel, exportFullInventoryExcel,
                         exportSoldItemsExcel} :
          ReportsPage_exportReport(document)
          /\ UNCHANGED <<invVars, metricVars, healthVars, alertVars, renderVars>>

SpecReports == InitReports /\ [][NextReports]_vars

\* The export functions of the Reports page called on the collections it
\* holds, whatever the state of its menus
InitExports ==
    /\ storeItems \in ReportsItemLists
    /\ storeCategories \in {<<>>, ReportsCategories(storeItems)}
    /\ storeSoldItems \in ReportsSoldLists
    /\ page = "reports"
    /\ items = storeItems
    /\ categories = storeCategories
    /\ soldItems = storeSoldItems
    /\ itemsCreated = Len(storeItems)
    /\ lastOp = Op("load", 0)
    /\ MetricsIdle
    /\ HealthIdle
    /\ AlertIdle
    /\ aiReport \in {NoReport} \cup
          {[request |-> 1, analysis |-> analysis] : analysis \in Analyses}
    /\ isGenerating = FALSE
    /\ rError = NoError
    /\ rEffect = FALSE
    /\ rInFlight = {}
    /\ rIssued = 0
    /\ exportLog = <<>>
    /\ RenderIdle

NextExports ==
    \/ /\ exportConsolidatedPDF_call
       /\ UNCHANGED <<aiReport, rError, rEffect, rInFlight, rIssued>>
       /\ UNCHANGED <<invVars, metricVars, healthVars, alertVars, renderVars>>
    \/ /\ Save(exportConsolidatedExcel)
       /\ UNCHANGED <<aiReport, isGenerating, rError, rEffect, rInFlight,
                      rIssued>>
       /\ UNCHANGED <<invVars, metricVars, healthVars, alertVars, renderVars>>
    \/ \E document \in {exportLowStockPDF, exportFullInventoryPDF,
                         exportSoldItemsPDF} :
          ReportsPage_exportReport(document)
          /\ UNCHANGED <<invVars, metricVars, healthVars, alertVars, renderVars>>
    \/ \E document \in {exportLowStockExcel, exportFullInventoryExcel,
                         exportSoldItemsExcel} :
          ReportsPage_exportReport(document)
          /\ UNCHANGED <<invVars, metricVars, healthVars, alertVars, renderVars>>

SpecExports == InitExports /\ [][NextExports]_vars

\* The Dashboard and the Reports page rendering the stored collections
MaxListLen == 2    \* longest item list the pages render

ReorderPoints == {0, 1}

\* the items' prices differ: 19.95, 29.95, ... in hundredths
RenderItemLists ==
    UNION {{[i \in 1 .. n |->
                [AlertItem(i, SkuAB, stock[i][1], stock[i][2])
                    EXCEPT !.price = 995 + 1000 * i]] :
              stock \in [1 .. n -> Quantities \X ReorderPoints]} :
           n \in 0 .. MaxListLen}

InitRender ==
    /\ storeItems \in RenderItemLists
    /\ storeCategories =
          <<[id |-> "c1", itemCount |-> Len(storeItems)],
            [id |-> "c2", itemCount |-> 0]>>
    /\ storeSoldItems \in ReportsSoldLists
    /\ page = "items"
    /\ items = storeItems
    /\ categories = storeCategories
    /\ soldItems = storeSoldItems
    /\ itemsCreated = Len(storeItems)
    /\ lastOp = Op("load", 0)
    /\ MetricsIdle
    /\ HealthIdle
    /\ AlertIdle
    /\ ReportsIdle
    /\ RenderIdle

NextRender ==
    \/ DashboardPage_load
          /\ UNCHANGED <<metricVars, healthVars, alertVars, reportsVars, renderVars>>
    \/ ReportsPage_load
          /\ UNCHANGED <<metricVars, healthVars, alertVars, reportsVars, renderVars>>
    \/ DashboardPage_render
          /\ UNCHANGED <<invVars, metricVars, healthVars, alertVars, reportsVars>>
    \/ ReportsPage_render
          /\ UNCHANGED <<invVars, metricVars, healthVars, alertVars, reportsVars>>

SpecRender == InitRender /\ [][NextRender]_vars

\* The Items page with several items in stock and out of stock, and sales
InitSell ==
    /\ storeItems \in RenderItemLists
    /\ storeCategories =
          <<[id |-> "c1", itemCount |-> Len(storeItems)],
            [id |-> "c2", itemCount |-> 0]>>
    /\ storeSoldItems = <<>>
    /\ page = "items"
    /\ items = storeItems
    /\ categories = storeCategories
    /\ soldItems = <<>>
    /\ itemsCreated = Len(storeItems)
    /\ lastOp = Op("load", 0)
    /\ MetricsIdle
    /\ HealthIdle
    /\ AlertIdle
    /\ ReportsIdle
    /\ RenderIdle

NextSell ==
    \E k \in 1 .. Len(items) : \E q \in SellInputs :
        handleSellConfirm(items[k], q)
        /\ UNCHANGED <<metricVars, reportsVars, healthVars, alertVars, renderVars>>

SpecSell == InitSell /\ [][NextSell]_vars

\* The stock alert holding an answer of the service: actions in any order,
\* item i named by action i
MaxActions == 3    \* most actions an answer suggests
Priorities == 1 .. 4

SuggestedActions ==
    UNION {{[i \in 1 .. n |-> [itemName |-> i, priority |-> priority[i]]] :
              priority \in [1 .. n -> Priorities]} :
           n \in 0 .. MaxActions}

InitAlertCard ==
    /\ storeItems = <<AlertItem(1, SkuAB, 0, 1)>>
    /\ storeCategories =
          <<[id |-> "c1", itemCount |-> 1], [id |-> "c2", itemCount |-> 0]>>
    /\ storeSoldItems = <<>>
    /\ page = "items"
    /\ items = storeItems
    /\ categories = storeCategories
    /\ soldItems = <<>>
    /\ itemsCreated = 1
    /\ lastOp = Op("load", 0)
    /\ MetricsIdle
    /\ HealthIdle
    /\ lowStockItems = ItemsPage_lowStockItems(items)
    /\ \E actions \in SuggestedActions :
          alert = [request |-> 1, suggestedActions |-> actions]
    /\ aIsLoading = FALSE
    /\ aError = NoError
    /\ aRetryCount = 0
    /\ aEffect = FALSE
    /\ aRetryTimers = {}
    /\ aInFlight = {}
    /\ aIssued = 1
    /\ aLastInput = AIAlert_alertInput(lowStockItems)
    /\ ReportsIdle
    /\ RenderIdle

NextAlertCard ==
    AIAlert_render /\ UNCHANGED <<invVars, metricVars, healthVars, reportsVars>>

SpecAlertCard == InitAlertCard /\ [][NextAlertCard]_vars

\* The Categories page opened on stored collections.  Items added on the
\* Items page raise their category's stored itemCount and an edit that moves
\* an item to another category leaves the stored counts alone, so the stored
\* counts add up to the number of items whatever categories the items name.
CategoryItemLists ==
    UNION {{[i \in 1 .. n |->
                [AlertItem(i, SkuAB, 1, 1) EXCEPT !.categoryId = cid[i]]] :
              cid \in [1 .. n -> CategoryIds]} :
           n \in 0 .. MaxListLen}

InitCategoriesPage ==
    /\ storeItems \in CategoryItemLists
    /\ \E n \in 0 .. Len(storeItems) :
          storeCategories =
             <<[id |-> "c1", itemCount |-> n],
               [id |-> "c2", itemCount |-> Len(storeItems) - n]>>
    /\ storeSoldItems = <<>>
    /\ page = "items"
    /\ items = storeItems
    /\ categories = storeCategories
    /\ soldItems = <<>>
    /\ itemsCreated = Len(storeItems)
    /\ lastOp = Op("load", 0)
    /\ MetricsIdle
    /\ HealthIdle
    /\ AlertIdle
    /\ ReportsIdle
    /\ RenderIdle

NextCategoriesPage ==
    \/ CategoriesPage_load
          /\ UNCHANGED <<metricVars, healthVars, alertVars, reportsVars, renderVars>>
    \/ (\E id \in NewCategoryIds : handleAddCategory(id))
          /\ UNCHANGED <<metricVars, healthVars, alertVars, reportsVars, renderVars>>
    \/ (\E k \in DOMAIN categories : CategoryForm_onSubmit_edit(categories[k]))
          /\ UNCHANGED <<metricVars, healthVars, alertVars, reportsVars, renderVars>>
    \/ (\E k \in DOMAIN categories : handleDeleteCategory(categories[k].id))
          /\ UNCHANGED <<metricVars, healthVars, alertVars, reportsVars, renderVars>>

SpecCategoriesPage == InitCategoriesPage /\ [][NextCategoriesPage]_vars

-----------------------------------------------------------------------------
(* Claims about the Items page *)

IsPrefix(s, t) == Len(s) <= Len(t) /\ \A k \in 1 .. Len(s) : t[k] = s[k]

HasItem(its, id) == \E k \in 1 .. Len(its) : its[k].id = id

\* C1: for an item I with quantity Q and a sell quantity q with 0 < q <= Q,
\* confirming the sale leaves I.quantity = Q - q and appends exactly one
\* SoldItem with quantitySold = q, itemId = I.id and price = I's price at
\* that moment; an edit of an item changes no existing SoldItem's price.
C1_SellThenPriceKept ==
    [][/\ \A k \in 1 .. Len(items) : \A q \in SellInputs :
             (/\ lastOp'.op = "sell"
              /\ 0 < q /\ q <= items[k].quantity
              /\ handleSellConfirm(items[k], q))
             => /\ Len(items') = Len(items)
                /\ items'[k].id = items[k].id
                /\ items'[k].quantity = items[k].quantity - q
                /\ storeItems' = items'
                /\ Len(soldItems') = Len(soldItems) + 1
                /\ IsPrefix(soldItems, soldItems')
                /\ soldItems'[Len(soldItems')].quantitySold = q
                /\ soldItems'[Len(soldItems')].itemId = items[k].id
                /\ soldItems'[Len(soldItems')].price = items[k].price
                /\ storeSoldItems' = soldItems'
       /\ lastOp'.op = "edit"
             => /\ Len(soldItems') = Len(soldItems)
                /\ \A j \in 1 .. Len(soldItems) :
                      soldItems'[j].price = soldItems[j].price
                /\ storeSoldItems' = soldItems']_vars

\* A sale was recorded and the price of the item sold was edited afterwards
C1_Witness ==
    /\ lastOp.op = "edit"
    /\ \E j \in 1 .. Len(soldItems) : \E k \in 1 .. Len(items) :
          /\ items[k].id = soldItems[j].itemId
          /\ items[k].price # soldItems[j].price

\* Number of items of a list that reference the category
ItemsReferencing(its, cid) ==
    Cardinality({k \in 1 .. Len(its) : its[k].categoryId = cid})

\* C2: after any sequence of item create, edit (also of the categoryId) and
\* delete operations, every category's persisted itemCount equals the number
\* of items whose categoryId is that category's id.
C2_ItemCountMatchesItems ==
    \A j \in 1 .. Len(storeCategories) :
        storeCategories[j].itemCount =
            ItemsReferencing(storeItems, storeCategories[j].id)

\* C3: deleting an item of category C sets C.itemCount to
\* max(0, C.itemCount - 1) and leaves every other category's itemCount as it
\* was; no category's itemCount is ever negative.
C3_DeleteDecrementsFloored ==
    [][/\ \A j \in 1 .. Len(categories') : categories'[j].itemCount >= 0
       /\ \A j \in 1 .. Len(storeCategories') :
             storeCategories'[j].itemCount >= 0
       /\ \A k \in 1 .. Len(items) :
             (lastOp'.op = "delete" /\ handleDelete(items[k]))
             => /\ Len(categories') = Len(categories)
                /\ \A j \in 1 .. Len(categories) :
                      /\ categories'[j].id = categories[j].id
                      /\ categories'[j].itemCount =
                            IF categories[j].id = items[k].categoryId
                            THEN (IF categories[j].itemCount = 0 THEN 0
                                  ELSE categories[j].itemCount - 1)
                            ELSE categories[j].itemCount
                /\ storeCategories' = categories']_vars

\* An item was deleted whose category already stood at itemCount 0: the
\* count stayed at 0
C3_Witness ==
    /\ lastOp = Op("delete", 0)
    /\ Len(items) < itemsCreated
    /\ \E j \in 1 .. Len(categories) : categories[j].itemCount = 0

C5_QuantityNonNegative ==
    /\ \A k \in 1 .. Len(items) : items[k].quantity \in Nat
    /\ \A k \in 1 .. Len(storeItems) : storeItems[k].quantity \in Nat

\* A sale sold the whole quantity of an item
C5_Witness ==
    /\ lastOp.op = "sell"
    /\ \E k \in 1 .. Len(items) :
          /\ items[k].quantity = 0
          /\ \E j \in 1 .. Len(soldItems) : soldItems[j].itemId = items[k].id

-----------------------------------------------------------------------------
(* Claims about the derived metrics *)

\* The sum of the code units of a SKU, taken from its last unit backwards
RECURSIVE SumOfCodes(_)
SumOfCodes(sku) ==
    IF Len(sku) = 0 THEN 0
    ELSE sku[Len(sku)] + SumOfCodes(SubSeq(sku, 1, Len(sku) - 1))

\* C6: for every SKU s with seed = sum of its character codes,
\* averageDailySales = (seed mod 19) + 1 and leadTimeDays = (seed mod 9) + 2,
\* so they lie in [1,19] and [2,10]; the empty SKU yields (1, 2); the Items
\* page's and the Dashboard's implementations return the same pair.
C6_DerivedMetrics ==
    LET seed == SumOfCodes(mSku)
        Right(r) ==
            /\ r.averageDailySales = (seed % 19) + 1
            /\ r.leadTimeDays = (seed % 9) + 2
            /\ r.averageDailySales \in 1 .. 19
            /\ r.leadTimeDays \in 2 .. 10
            /\ mSku = <<>> => r.averageDailySales = 1 /\ r.leadTimeDays = 2
    IN  /\ mItemsPage # NotCalled => Right(mItemsPage)
        /\ mDashboard # NotCalled => Right(mDashboard)
        /\ (mItemsPage # NotCalled /\ mDashboard # NotCalled) => mItemsPage = mDashboard

\* Both implementations were called with a SKU that yields the largest
\* value of each metric
C6_Witness ==
    /\ mSku # <<>>
    /\ mItemsPage # NotCalled
    /\ mDashboard # NotCalled
    /\ mDashboard.averageDailySales = 19
    /\ mDashboard.leadTimeDays = 10

\* C7: after any sequence of item add and edit operations (also an edit of
\* the SKU), the averageDailySales and leadTimeDays every page holds for an
\* item, and places in the request entries it sends, are the values derived
\* from the item's current SKU.
C7_MetricsFollowSku ==
    /\ \A k \in 1 .. Len(items) :
          LET derived == ItemsPage_getDeterministicItemData(items[k].sku)
          IN  /\ items[k].averageDailySales = derived.averageDailySales
              /\ items[k].leadTimeDays = derived.leadTimeDays
    /\ \A e \in Range(PageRequestEntries) : \A k \in 1 .. Len(items) :
          items[k].id = e.itemId
          => LET derived == ItemsPage_getDeterministicItemData(items[k].sku)
             IN  /\ e.averageDailySales = derived.averageDailySales
                 /\ e.leadTimeDays = derived.leadTimeDays


\* C9: when two health-report requests are in flight together and the one
\* issued first is answered last, the report held afterwards is the answer
\* to the one issued last.  As a state property: once nothing is in flight
\* and the request issued last has succeeded, a report that is held answers
\* that request.
C9_LastRequestWins ==
    (/\ hInFlight = {}
     /\ hIssued \in hSucceeded
     /\ report # NoReport)
    => report.request = hIssued

\* C10 as stated: after a burst of allItems changes less than 500 ms apart,
\* no request goes out within 500 ms of the last change, and once more than
\* 500 ms have passed exactly one has gone out, with the last list as input.
C10_OneRequestPerBurst ==
    /\ hSinceItems < DebounceMs => hReqsSinceItems = 0
    /\ (hBurst >= 2 /\ hSinceItems > DebounceMs)
          => /\ hReqsSinceItems = 1
             /\ hLastInput = AIHealthReport_reportInput(allItems)

\* C10, amended: no request goes out within 500 ms of the last change of the
\* item list or of the retry counter (so none between the changes of a
\* burst); once more than 500 ms have passed since that change, exactly one
\* request has gone out, with the current list as input, unless the list is
\* empty, and then none has.
C10_DebouncedRequest ==
    /\ hSinceDeps < DebounceMs => hReqsSinceDeps = 0
    /\ hReqsSinceDeps <= 1
    /\ hReqsSinceDeps = 1
          => hLastInput = AIHealthReport_reportInput(allItems)
    /\ hSinceDeps > DebounceMs
          => hReqsSinceDeps = (IF Len(allItems) = 0 THEN 0 ELSE 1)

C10_Witness ==
    /\ hBurst >= 2
    /\ hSinceItems > DebounceMs
    /\ hReqsSinceItems = 1
    /\ Len(allItems) > 0
    /\ hLastInput = AIHealthReport_reportInput(allItems)


\* C8: every stock-alert request sent from the Items page holds exactly the
\* items that are out of stock (quantity 0) when it is sent, one entry for
\* each, each with currentQuantity 0.
OutOfStock(its) == SelectSeq(its, LAMBDA item : item.quantity = 0)

C8_RequestHoldsOutOfStockItems ==
    [][aIssued' = aIssued + 1
          => \A request \in aInFlight' :
                request.ordinal = aIssued'
                => /\ request.input = SeqMap(OutOfStock(items'), RequestEntry)
                   /\ \A k \in 1 .. Len(request.input) :
                         request.input[k].currentQuantity = 0]_vars


\* C11: each transient failure (the message holds 429 or 503) schedules
\* exactly one retry timer of 5 s; a timer is scheduled only by such a
\* failure; the wait a timer's firing restarts issues at most one request;
\* timers fired and timers pending together never exceed the failures.
TransientFailures == {"429", "503"}

HealthFailed == hIssued - Cardinality(hInFlight) - Cardinality(hSucceeded)

C11_OneRetryPerTransientFailure ==
    [][/\ \A request \in hInFlight : \A failure \in TransientFailures :
             AIHealthReport_reject(request, failure)
             => /\ Cardinality(hRetryTimers') = Cardinality(hRetryTimers) + 1
                /\ [by |-> request.ordinal, left |-> RetryMs] \in hRetryTimers'
       /\ Cardinality(hRetryTimers') > Cardinality(hRetryTimers)
             => \E request \in hInFlight : \E failure \in TransientFailures :
                   AIHealthReport_reject(request, failure)
       /\ hReqsSinceDeps' <= 1
       /\ hRetryCount' + Cardinality(hRetryTimers') <= HealthFailed']_vars


\* C12: at every call site a failure whose message holds 429 or 503 is
\* classified as transient: the component shows the retrying message, not
\* the generic one.  Stated for the Reports page, whose catch block has one
\* message and schedules nothing.
C12_TransientShowsRetrying ==
    [][\A request \in rInFlight : \A failure \in TransientFailures :
          ReportsPage_reject(request, failure) => rError' = "busy"]_vars


C14_EmptyListNeutral ==
    Len(allItems) = 0
    => /\ hReqsSinceItems = 0
       /\ (hDebounce = TimerOff /\ hInFlight = {})
             => /\ report = NoReport
                /\ hError = NoError
                /\ hIsLoading = FALSE


\* C15: in every state of the Reports page in which aiReport is null (not
\* requested yet, loading, failed, or no items), no step saves a
\* consolidated document, PDF or workbook.
C15_NoConsolidatedExportWithoutReport ==
    [][(aiReport = NoReport /\ Len(exportLog') > Len(exportLog))
          => exportLog'[Len(exportLog')].name
                # "consolidated-inventory-report"]_vars

\* A report card's export has saved a document after the analysis failed
C15_Witness ==
    /\ aiReport = NoReport
    /\ rError = "failed"
    /\ Len(exportLog) > 0
    /\ exportLog[Len(exportLog)].name # "consolidated-inventory-report"


\* C16: a consolidated workbook export with no items, no categories and no
\* sold items saves a workbook of five sheets (Low Stock Items, Full
\* Inventory, In-Stock Items, Sold Items, Categories), each without a row.
ConsolidatedSheetNames ==
    <<"Low Stock Items", "Full Inventory", "In-Stock Items", "Sold Items",
      "Categories">>

C16_EmptyWorkbookFiveEmptySheets ==
    \A k \in 1 .. Len(exportLog) :
        (/\ exportLog[k].format = "xlsx"
         /\ exportLog[k].name = "consolidated-inventory-report"
         /\ Len(items) = 0 /\ Len(categories) = 0 /\ Len(soldItems) = 0)
        => /\ Len(exportLog[k].sheets) = Len(ConsolidatedSheetNames)
           /\ \A n \in 1 .. Len(exportLog[k].sheets) :
                 /\ exportLog[k].sheets[n].name = ConsolidatedSheetNames[n]
                 /\ Len(exportLog[k].sheets[n].rows) = 0

-----------------------------------------------------------------------------
(* Out-of-stock and in-stock sets *)

\* C17: for every item list, the out-of-stock list of the Reports page holds
\* exactly the items with quantity 0 and its in-stock list exactly the items
\* with quantity > 0, so every item is in exactly one of the two; the
\* Dashboard counts exactly the items with quantity 0.
C17_OutOfStockIsQuantityZero ==
    /\ (page = "reports" /\ reportsStock # NotRendered)
          => LET low == reportsStock.lowStockItems
                 inStock == reportsStock.inStockItems
                 Occurrences(list, x) ==
                     Cardinality({i \in DOMAIN list : list[i] = x})
             IN  /\ \A i \in DOMAIN low : low[i].quantity = 0
                 /\ \A i \in DOMAIN inStock : inStock[i].quantity > 0
                 /\ \A i \in DOMAIN items :
                       /\ Occurrences(low, items[i]) =
                             (IF items[i].quantity = 0 THEN 1 ELSE 0)
                       /\ Occurrences(inStock, items[i]) =
                             (IF items[i].quantity > 0 THEN 1 ELSE 0)
                 /\ Len(low) + Len(inStock) = Len(items)
    /\ (page = "dashboard" /\ dashboardStats # NotRendered)
          => dashboardStats.lowStockItemsCount =
                Cardinality({i \in DOMAIN items : items[i].quantity = 0})

\* Both pages have rendered a list with items out of stock and items in stock.
C17_Witness ==
    /\ page = "reports"
    /\ reportsStock # NotRendered
    /\ Len(reportsStock.lowStockItems) > 0
    /\ Len(reportsStock.inStockItems) > 0
    /\ dashboardStats # NotRendered
    /\ dashboardStats.lowStockItemsCount > 0
    /\ dashboardStats.lowStockItemsCount < dashboardStats.totalItems

\* C18: the Dashboard's low-stock count is the number of items with
\* quantity <= reorderPoint.
C18_DashboardCountsAtOrBelowReorderPoint ==
    (page = "dashboard" /\ dashboardStats # NotRendered)
       => dashboardStats.lowStockItemsCount =
             Cardinality({i \in DOMAIN items :
                             items[i].quantity <= items[i].reorderPoint})

-----------------------------------------------------------------------------
(* Recomputed item counts *)

\* C19: no operation of the Categories page writes a recomputed count into
\* the stored categories: a category that stays in the store keeps the
\* itemCount the store held for it, and a new category is stored with 0.
C19_RecomputedCountsNotPersisted ==
    [][page' = "categories"
          => \A k \in DOMAIN storeCategories' :
                storeCategories'[k].itemCount =
                   ItemCountOf(storeCategories, storeCategories'[k].id)]_vars

-----------------------------------------------------------------------------
(* Watermark and page numbers of the PDF exports *)

\* C20: in every saved PDF (low-stock, full-inventory, sold-items,
\* consolidated) every page i of the final Y pages carries exactly one
\* watermark and exactly one footer, "Page i of Y" with Y the final page
\* count: the pages were stamped once, after the last page was added.
C20_EveryPageStampedOnce ==
    \A k \in DOMAIN exportLog :
        exportLog[k].format = "pdf"
        => LET pages == exportLog[k].pages
           IN  /\ Len(pages) >= 1
               /\ \A i \in DOMAIN pages :
                     /\ pages[i].watermarks = 1
                     /\ pages[i].footers = <<[page |-> i, of |-> Len(pages)]>>

\* A consolidated PDF of more than one section page has been saved.
C20_Witness ==
    \E k \in DOMAIN exportLog :
        /\ exportLog[k].format = "pdf"
        /\ exportLog[k].name = "consolidated-inventory-report"
        /\ \E i, j \in DOMAIN exportLog[k].pages :
              /\ i < j
              /\ exportLog[k].pages[i].section = exportLog[k].pages[j].section
              /\ exportLog[k].pages[i].section = "full-inventory"

-----------------------------------------------------------------------------
(* The "top 10 items by quantity" charts *)

\* C21: the chart data of the Dashboard's Stock Levels card and of the
\* consolidated PDF are the first 10 items of the list sorted by descending
\* quantity, items of equal quantity in their order in the list: the item
\* at index i stands at position 1 + (number of items with a larger
\* quantity, or with the same quantity and a smaller index).
C21_ChartIsTopTenByQuantity ==
    LET Rank(its, i) ==
            1 + Cardinality({j \in DOMAIN its :
                                \/ its[j].quantity > its[i].quantity
                                \/ /\ its[j].quantity = its[i].quantity
                                   /\ j < i})
    IN  /\ (page = "dashboard" /\ dashboardStats # NotRendered)
              => LET chart == dashboardStats.chartData
                 IN  /\ Len(chart) = Min(ChartTop, Len(items))
                     /\ \A i \in DOMAIN items :
                           Rank(items, i) <= ChartTop
                           => /\ chart[Rank(items, i)].id = items[i].id
                              /\ chart[Rank(items, i)].quantity =
                                    items[i].quantity
        /\ \A k \in DOMAIN exportLog :
              exportLog[k].name = "consolidated-inventory-report"
                 /\ exportLog[k].format = "pdf"
              => LET chart == exportLog[k].chartData
                 IN  /\ Len(chart) = Min(ChartTop, Len(items))
                     /\ \A i \in DOMAIN items :
                           Rank(items, i) <= ChartTop
                           => chart[Rank(items, i)] = items[i]

-----------------------------------------------------------------------------
(* Total revenue in the two formats *)

\* A workbook or PDF of the export log that holds the sold items
HasSoldItems(document) ==
    IF document.format = "pdf"
    THEN document.name \in {"sold-items-report",
                            "consolidated-inventory-report"}
    ELSE \E n \in DOMAIN document.sheets :
            document.sheets[n].name = "Sold Items"

\* C22: for one snapshot the total of the PDF's Sold Items foot row and the
\* total of the workbook's trailing row are the same amount, the sum of
\* quantitySold x price over the sold items; in the PDF it stands under the
\* Total Revenue head, in the workbook in the column of the Total Revenue
\* header, in the row right after the last data row.
C22_TotalRevenueSameInBothFormats ==
    LET RECURSIVE Sum(_, _)
        Sum(sold, k) ==
            IF k > Len(sold) THEN 0
            ELSE sold[k].quantitySold * sold[k].price + Sum(sold, k + 1)
        RECURSIVE ColumnOf(_, _)
        ColumnOf(foot, n) ==
            IF n = 1 THEN 1
            ELSE ColumnOf(foot, n - 1) + foot[n - 1].colSpan
    IN  \A k \in DOMAIN exportLog :
           HasSoldItems(exportLog[k])
           => IF exportLog[k].format = "pdf"
              THEN LET table == exportLog[k].soldItems
                       total == table.foot[2].content.v
                   IN  /\ total.units * 100 + total.hundredths
                             = Sum(soldItems, 1)
                       /\ total.hundredths \in 0 .. 99
                       /\ table.head[ColumnOf(table.foot, 2)]
                             = "Total Revenue"
              ELSE LET sheet ==
                          CHOOSE sh \in Range(exportLog[k].sheets) :
                              sh.name = "Sold Items"
                       rows == sheet.rows
                       last == rows[Len(rows)]
                   IN  /\ last[Len(last)] = Num(Sum(soldItems, 1))
                       /\ Len(soldItems) > 0
                             => /\ Len(rows) = Len(soldItems) + 2
                                /\ rows[1][Len(last)] = Str("Total Revenue")
                                /\ \A r \in 2 .. Len(rows) - 1 :
                                      rows[r][Len(last)] =
                                         Num(soldItems[r - 1].quantitySold
                                             * soldItems[r - 1].price)

\* A PDF and a workbook of the same three sales have been saved.
C22_Witness ==
    /\ Len(soldItems) > 1
    /\ \E k, j \in DOMAIN exportLog :
          /\ exportLog[k].format = "pdf"
          /\ exportLog[j].format = "xlsx"
          /\ HasSoldItems(exportLog[k])
          /\ HasSoldItems(exportLog[j])

-----------------------------------------------------------------------------
(* The Dashboard's inventory value *)

-----------------------------------------------------------------------------
(* Reading back the Full Inventory sheet *)

\* The Full Inventory sheets of the saved workbooks
FullInventorySheets ==
    {sheet \in UNION {Range(exportLog[k].sheets) :
                         k \in {j \in DOMAIN exportLog :
                                   exportLog[j].format = "xlsx"}} :
        sheet.name = "Full Inventory"}

\* The sheet has one row per item under its header row, in item order, and
\* the row of item i holds the item's name, sku, quantity and price and, in
\* the Category column, a cell that CategoryCell(i) accepts
FullInventoryReadsBack(sheet, CategoryCell(_, _)) ==
    LET rows == sheet.rows
        Column(key) == CHOOSE k \in DOMAIN rows[1] : rows[1][k] = Str(key)
    IN  /\ Len(items) = 0 => Len(rows) = 0
        /\ Len(items) > 0
              => /\ Len(rows) = Len(items) + 1
                 /\ \A key \in {"Name", "SKU", "Category", "Quantity", "Price"} :
                       \E k \in DOMAIN rows[1] : rows[1][k] = Str(key)
                 /\ \A i \in DOMAIN items :
                       LET row == rows[i + 1]
                       IN  /\ row[Column("Name")] = Cell("name", items[i].id)
                           /\ row[Column("SKU")] = Cell("sku", items[i].sku)
                           /\ row[Column("Quantity")] = Num(items[i].quantity)
                           /\ row[Column("Price")] = Num(items[i].price)
                           /\ CategoryCell(row[Column("Category")], items[i])

\* C24 as stated: the Category cell of every row is the name of the category
\* whose id is the item's categoryId.
C24_FullInventoryRoundTrip ==
    \A sheet \in FullInventorySheets :
        FullInventoryReadsBack(sheet,
            LAMBDA cell, item :
                \E k \in DOMAIN categories :
                    /\ categories[k].id = item.categoryId
                    /\ cell = Cell("category", categories[k].id))

\* C24: reading back the Full Inventory sheet of a workbook (standalone or
\* consolidated) gives one row per item, in item order, with the item's name,
\* sku, quantity and price; its category name is the name of the category
\* whose id is the item's categoryId, and 'N/A' when no category has that id.
C24_FullInventoryRoundTripOrNA ==
    \A sheet \in FullInventorySheets :
        FullInventoryReadsBack(sheet,
            LAMBDA cell, item :
                IF \E k \in DOMAIN categories :
                      categories[k].id = item.categoryId
                THEN cell = Cell("category", item.categoryId)
                ELSE cell = Str("N/A"))

\* A workbook with the rows of several items, their category found, is saved.
C24_Witness ==
    /\ Len(items) > 1
    /\ Len(categories) > 1
    /\ \A i \in DOMAIN items :
          \E k \in DOMAIN categories : categories[k].id = items[i].categoryId
    /\ FullInventorySheets # {}
    /\ \E k, j \in DOMAIN exportLog :
          exportLog[k].name # exportLog[j].name

-----------------------------------------------------------------------------
(* The layout of the AI health section *)

\* C25: in the AI health section of a consolidated PDF every title and every
\* point is drawn with its bottom edge (where it is drawn + its height)
\* inside the printable area, page height - 30; a block that would not fit
\* under the cursor is drawn on a new page, after that page's header; the
\* header follows every added page at once.
C25_HealthBlocksInsidePrintableArea ==
    \A k \in DOMAIN exportLog :
        (exportLog[k].format = "pdf"
            /\ exportLog[k].name = "consolidated-inventory-report")
        => LET events == exportLog[k].health
           IN  \A n \in DOMAIN events :
                  /\ events[n].ev = "addPage"
                        => n < Len(events) /\ events[n + 1].ev = "header"
                  /\ events[n].ev = "text"
                        => /\ events[n].y + events[n].height
                                 <= PageHeight - 30
                           /\ events[n].cursor + events[n].height
                                 > PageHeight - 30
                              => /\ n > 2
                                 /\ events[n - 2].ev = "addPage"
                                 /\ events[n - 1].ev = "header"

-----------------------------------------------------------------------------
(* The suggested actions of the stock alert *)

\* C26: the suggested actions displayed are a permutation of the actions the
\* service returned, in ascending order of priority (priority 1 first),
\* whatever order they were returned in.
C26_ActionsShownByPriority ==
    alertCard # NotRendered
    => LET shown == alertCard.suggestedActions
           returned == alertCard.returned
       IN  /\ Len(shown) = Len(returned)
           /\ \A i \in DOMAIN returned :
                 Cardinality({k \in DOMAIN shown : shown[k] = returned[i]})
                    = Cardinality({k \in DOMAIN returned :
                                      returned[k] = returned[i]})
           /\ \A i, j \in DOMAIN shown :
                 i < j => shown[i].priority <= shown[j].priority

\* Actions returned out of order, two of them with the same priority, are
\* displayed.
C26_Witness ==
    /\ alertCard # NotRendered
    /\ \E i, j \in DOMAIN alertCard.returned :
          /\ i < j
          /\ alertCard.returned[i].priority > alertCard.returned[j].priority
    /\ \E i, j \in DOMAIN alertCard.returned :
          /\ i # j
          /\ alertCard.returned[i].priority = alertCard.returned[j].priority

-----------------------------------------------------------------------------
(* What a sale leaves alone *)

\* C27: a sale changes only the quantity of the item sold: its other fields
\* (price, sku, categoryId and the rest), every other item and every
\* category with its itemCount are as before, in the page and in the store.
C27_SellChangesOnlyQuantity ==
    [][lastOp'.op = "sell"
          => /\ Len(items') = Len(items)
             /\ \E k \in DOMAIN items :
                   /\ items'[k].quantity < items[k].quantity
                   /\ items'[k] =
                         [items[k] EXCEPT !.quantity = items'[k].quantity]
                   /\ \A j \in DOMAIN items \ {k} : items'[j] = items[j]
             /\ storeItems' = items'
             /\ categories' = categories
             /\ storeCategories' = storeCategories]_vars

\* One of two items of a category has been sold from.
C27_Witness ==
    /\ lastOp.op = "sell"
    /\ Len(items) > 1
    /\ Len(soldItems) > 0
    /\ \E k \in DOMAIN categories : categories[k].itemCount > 1

-----------------------------------------------------------------------------
(* The coordinates of the Stock Level Chart *)

\* the number is finite and lies between 0 and the chart height
InsideChart(number) ==
    /\ number.kind = "finite"
    /\ number.den > 0
    /\ 0 <= number.num
    /\ number.num <= ChartHeight * number.den

\* C28: for every non-empty item list, one with every quantity 0 included,
\* every bar height and each of the six gridline positions of the
\* consolidated PDF's chart is a number inside the chart area: none comes
\* from a division by a zero maxQuantity.
C28_ChartCoordinatesDefined ==
    \A k \in DOMAIN exportLog :
        (exportLog[k].format = "pdf"
            /\ exportLog[k].name = "consolidated-inventory-report"
            /\ Len(items) > 0)
        => LET chart == exportLog[k].chart
           IN  /\ Len(chart.bars) = Min(ChartTop, Len(items))
               /\ \A n \in DOMAIN chart.bars : InsideChart(chart.bars[n])
               /\ Len(chart.gridlines) = 6
               /\ \A n \in DOMAIN chart.gridlines :
                     InsideChart(chart.gridlines[n].up)

-----------------------------------------------------------------------------
(* The isGenerating flag around the consolidated PDF export *)

\* C30: every call of the consolidated PDF export that gets past the
\* missing-report guard ends with isGenerating cleared, whether the
\* document is built and saved or the build fails partway.
C30_ExportClearsIsGenerating ==
    [][(aiReport # NoReport /\ ReportsPage_exportConsolidatedPDF)
          => isGenerating' = FALSE]_vars

-----------------------------------------------------------------------------
(* Requests after a success *)

\* The report shown is the answer to a request issued since allItems last
\* changed
HealthSucceededForCurrentList ==
    /\ report # NoReport
    /\ report.request > hIssued - hReqsSinceItems

\* C29: once a health-report request has succeeded for the current item
\* list, no further request is issued until the item list changes; a retry
\* timer left pending by an earlier transient failure does not cause one.
C29_NoRequestAfterSuccess ==
    [][HealthSucceededForCurrentList => hIssued' = hIssued]_vars

=============================================================================
